---- MODULE Spec2Model ----
(***************************************************************************)
(* Model of the WireGuard API server's client registry: the handlers for   *)
(* listing, adding and deleting clients, the address allocators, the       *)
(* existence check, the config-file editor and the daemon sync.            *)
(*                                                                         *)
(* Text is modelled as what strings.Split(text, "\n") returns: a non-empty *)
(* sequence of lines, a trailing newline showing as a last empty line.     *)
(* A line is a sequence of symbols.  A symbol is a single character        *)
(* ("1", ".", "a") or a keyword of the file formats that the code writes   *)
(* as one literal ("### Client ", "[Peer]", "AllowedIPs = ") or an opaque  *)
(* value no pattern of the code looks into (a base64 key, a DNS address).  *)
(***************************************************************************)
EXTENDS Integers, Sequences, FiniteSets, TLC

VARIABLES paramsFile, wgParams, config, clients, daemon, resp, steps, added,
          inflight

vars ==
    <<paramsFile, wgParams, config, clients, daemon, resp, steps, added, inflight>>

----------------------------------------------------------------------------
(* Characters and strings *)

Digits == <<"0", "1", "2", "3", "4", "5", "6", "7", "8", "9">>

HexLower == <<"a", "b", "c", "d", "e", "f">>

HexUpper == <<"A", "B", "C", "D", "E", "F">>

\* The single characters that occur in the model's texts, in ASCII order.
AsciiOrder ==
    <<"-", ".", "/", "0", "1", "2", "3", "4", "5", "6", "7", "8", "9", ":",
      "A", "B", "C", "D", "E", "F", "[", "]", "_",
      "a", "b", "c", "d", "e", "f", "g", "h", "i", "l", "n", "o", "p", "t",
      "w", "x">>

Range(s) == {s[i] : i \in DOMAIN s}

CharSet == Range(AsciiOrder)

DigitSet == Range(Digits)

HexDigitSet == Range(Digits) \cup Range(HexLower) \cup Range(HexUpper)

IsChar(c) == c \in CharSet

Ord(c) == CHOOSE i \in DOMAIN AsciiOrder : AsciiOrder[i] = c

IsDigit(c) == c \in DigitSet

IsHexDigit(c) == c \in HexDigitSet

DigitVal(c) == (CHOOSE i \in DOMAIN Digits : Digits[i] = c) - 1

HexVal(c) ==
    IF c \in DigitSet THEN DigitVal(c)
    ELSE IF c \in Range(HexLower)
         THEN 9 + (CHOOSE i \in DOMAIN HexLower : HexLower[i] = c)
         ELSE 9 + (CHOOSE i \in DOMAIN HexUpper : HexUpper[i] = c)

Last(s) == s[Len(s)]

Front(s) == SubSeq(s, 1, Len(s) - 1)

\* strings.HasPrefix / strings.HasSuffix
HasPrefixAt(s, i, p) ==
    /\ i + Len(p) - 1 <= Len(s)
    /\ \A k \in 1..Len(p) : s[i + k - 1] = p[k]

HasPrefix(s, p) == HasPrefixAt(s, 1, p)

HasSuffix(s, p) == Len(p) <= Len(s) /\ HasPrefixAt(s, Len(s) - Len(p) + 1, p)

\* strings.Contains
Contains(s, p) == \E i \in 1..(Len(s) + 1) : HasPrefixAt(s, i, p)

\* strings.Split(s, sep) for a non-empty separator
RECURSIVE SplitFrom(_, _, _, _)
SplitFrom(s, sep, start, i) ==
    IF i + Len(sep) - 1 > Len(s)
    THEN <<SubSeq(s, start, Len(s))>>
    ELSE IF HasPrefixAt(s, i, sep)
         THEN <<SubSeq(s, start, i - 1)>>
              \o SplitFrom(s, sep, i + Len(sep), i + Len(sep))
         ELSE SplitFrom(s, sep, start, i + 1)

Split(s, sep) == SplitFrom(s, sep, 1, 1)

\* fmt.Sprintf("%d", n) for n >= 0
RECURSIVE FormatDec(_)
FormatDec(n) ==
    IF n < 10 THEN <<Digits[n + 1]>>
    ELSE FormatDec(n \div 10) \o <<Digits[(n % 10) + 1]>>

\* fmt.Sscanf(s, "%d", &v) on a string of decimal digits
RECURSIVE ScanDec(_)
ScanDec(s) ==
    IF s = <<>> THEN 0 ELSE 10 * ScanDec(Front(s)) + DigitVal(Last(s))

\* fmt.Sscanf(s, "%x", &v) on a string of hexadecimal digits
RECURSIVE ScanHex(_)
ScanHex(s) ==
    IF s = <<>> THEN 0 ELSE 16 * ScanHex(Front(s)) + HexVal(Last(s))

\* Byte-wise order of two strings of characters (the order of os.ReadDir)
RECURSIVE StrLess(_, _)
StrLess(s, t) ==
    IF t = <<>> THEN FALSE
    ELSE IF s = <<>> THEN TRUE
    ELSE IF s[1] = t[1] THEN StrLess(Tail(s), Tail(t))
    ELSE Ord(s[1]) < Ord(t[1])

\* Texts: a + b on strings, seen as lines
TextCat(a, b) == Front(a) \o <<Last(a) \o b[1]>> \o Tail(b)

EmptyText == <<<<>>>>

----------------------------------------------------------------------------
(* Literals of the source *)

S_10_66_66_1 == <<"1", "0", ".", "6", "6", ".", "6", "6", ".", "1">>

S_fd42_1 == <<"f", "d", "4", "2", ":", "4", "2", ":", "4", "2", ":", ":", "1">>

S_wg0 == <<"w", "g", "0">>

S_wg1 == <<"w", "g", "1">>

S_client == <<"-", "c", "l", "i", "e", "n", "t", "-">>

S_conf == <<".", "c", "o", "n", "f">>

S_wg0_client == S_wg0 \o S_client

S_slash32 == <<"/", "3", "2">>

S_slash128 == <<"/", "1", "2", "8">>

S_slash24 == <<"/", "2", "4">>

S_slash64 == <<"/", "6", "4">>

\* ^[a-zA-Z0-9_-]{1,15}$
NameMaxLen == 15

NameChars == CharSet \ {".", "/", ":", "[", "]"}

\* Variant: no upper bound on the length
NameValid_noUpperBound(name) ==
    /\ Len(name) >= 1
    /\ \A i \in DOMAIN name : name[i] \in NameChars

NameValid(name) ==
    /\ Len(name) >= 1
    /\ Len(name) <= NameMaxLen
    /\ \A i \in DOMAIN name : name[i] \in NameChars

\* for i := 2; i <= 254; i++
PoolFirst == 2

PoolLast == 254

----------------------------------------------------------------------------
(* Address allocators *)

\* One position of the pattern baseIP + `\.(\d+)`: baseIP is not quoted, so
\* each "." of it is the pattern "any character".
BaseMatchesAt(line, i, baseIP) ==
    \A k \in 1..Len(baseIP) :
        IF baseIP[k] = "." THEN IsChar(line[i + k - 1])
        ELSE line[i + k - 1] = baseIP[k]

IPv4MatchAt(line, i, baseIP) ==
    /\ BaseMatchesAt(line, i, baseIP)
    /\ line[i + Len(baseIP)] = "."
    /\ IsDigit(line[i + Len(baseIP) + 1])

\* regexp.QuoteMeta(baseIP) + `::([\da-fA-F]+)`
IPv6MatchAt(line, i, baseIP) ==
    /\ HasPrefixAt(line, i, baseIP \o <<":", ":">>)
    /\ IsHexDigit(line[i + Len(baseIP) + 2])

\* The end of the greedy run (\d+ or [\da-fA-F]+) that starts at j
RunEnd(line, j, hex) ==
    CHOOSE e \in j..Len(line) :
        /\ \A k \in j..e : IF hex THEN IsHexDigit(line[k]) ELSE IsDigit(line[k])
        /\ \/ e = Len(line)
           \/ IF hex THEN ~IsHexDigit(line[e + 1]) ELSE ~IsDigit(line[e + 1])

\* FindAllStringSubmatch on one line: the captured groups of the leftmost
\* matches, none overlapping the one before.  starts: where the pattern
\* matches; off: from a match's start to its group.
RECURSIVE Submatches(_, _, _, _, _)
Submatches(line, from, starts, off, hex) ==
    LET next == {i \in starts : i >= from}
    IN  IF next = {} THEN {}
        ELSE LET i == CHOOSE m \in next : \A n \in next : m <= n
                 e == RunEnd(line, i + off, hex)
             IN  {SubSeq(line, i + off, e)}
                 \cup Submatches(line, e + 1, starts, off, hex)

IPv4Submatches(content, baseIP) ==
    UNION {LET line == content[l]
               starts == {i \in 1..(Len(line) - Len(baseIP) - 1) :
                              IPv4MatchAt(line, i, baseIP)}
           IN  Submatches(line, 1, starts, Len(baseIP) + 1, FALSE)
           : l \in DOMAIN content}

IPv6Submatches(content, baseIP) ==
    UNION {LET line == content[l]
               starts == {i \in 1..(Len(line) - Len(baseIP) - 2) :
                              IPv6MatchAt(line, i, baseIP)}
           IN  Submatches(line, 1, starts, Len(baseIP) + 2, TRUE)
           : l \in DOMAIN content}

\* Variant: the first host number of the range, whatever is used
FirstFree_first(used) == PoolFirst

\* Variant: the loop bound one too far, "i <= 255"
FirstFree_upTo255(used) ==
    IF \A i \in PoolFirst..(PoolLast + 1) : i \in used THEN 0
    ELSE CHOOSE i \in PoolFirst..(PoolLast + 1) :
             i \notin used /\ \A j \in PoolFirst..(i - 1) : j \in used

\* Variant: the loop bound one short, "i < 254"
FirstFree_upTo253(used) ==
    IF \A i \in PoolFirst..(PoolLast - 1) : i \in used THEN 0
    ELSE CHOOSE i \in PoolFirst..(PoolLast - 1) :
             i \notin used /\ \A j \in PoolFirst..(i - 1) : j \in used

\* The loop "for i := 2; i <= 254; i++ { if !used[i] { return i } }"
FirstFree(used) ==
    IF \A i \in PoolFirst..PoolLast : i \in used THEN 0
    ELSE CHOOSE i \in PoolFirst..PoolLast :
             i \notin used /\ \A j \in PoolFirst..(i - 1) : j \in used

Join3(parts) == parts[1] \o <<".">> \o parts[2] \o <<".">> \o parts[3]

\* getNextAvailableIPv4, on the content read from the config file
getNextAvailableIPv4(p, content) ==
    LET parts == Split(p.ServerWGIPv4, <<".">>)
    IN  IF Len(parts) # 4
        THEN [ip |-> <<>>, err |-> "invalid server IPv4 address format"]
        ELSE LET baseIP == Join3(parts)
                 usedOctets == {ScanDec(m) : m \in IPv4Submatches(content, baseIP)}
                 i == FirstFree(usedOctets)
             IN  IF i # 0
                 THEN [ip |-> baseIP \o <<".">> \o FormatDec(i), err |-> ""]
                 ELSE [ip |-> <<>>,
                       err |-> "no available IPv4 addresses in the subnet"]

\* getNextAvailableIPv6, on the content read from the config file
getNextAvailableIPv6(p, content) ==
    IF p.ServerWGIPv6 = <<>> THEN [ip |-> <<>>, err |-> ""]
    ELSE LET parts == Split(p.ServerWGIPv6, <<":", ":">>)
         IN  IF Len(parts) # 2
             THEN [ip |-> <<>>, err |-> "invalid server IPv6 address format"]
             ELSE LET baseIP == parts[1]
                      usedParts == {ScanHex(m) : m \in IPv6Submatches(content, baseIP)}
                      i == FirstFree(usedParts)
                  IN  IF i # 0
                      THEN [ip |-> baseIP \o <<":", ":">> \o FormatDec(i), err |-> ""]
                      ELSE [ip |-> <<>>,
                            err |-> "no available IPv6 addresses in the subnet"]

----------------------------------------------------------------------------
(* Names of files and of markers *)

\* wgParams.ServerWGNIC + "-client-" + name + ".conf"
StandardConfigPath(p, name) == p.ServerWGNIC \o S_client \o name \o S_conf

\* "wg0-client-" + name + ".conf"
AlternativeConfigPath(name) == S_wg0_client \o name \o S_conf

\* name + ".conf"
SimpleConfigPath(name) == name \o S_conf

\* The names under which a peer block of name may be marked:
\* name, "wg0-client-" + name, ServerWGNIC + "-client-" + name
PrefixedName(name) == S_wg0_client \o name

DynamicPrefixedName(p, name) == p.ServerWGNIC \o S_client \o name

MarkerLine(v) == <<"### Client ">> \o v

\* fileExists: os.Stat succeeds on the path
fileExists(cl, path) == path \in DOMAIN cl

----------------------------------------------------------------------------
(* Existence check *)

\* regexp `### Client ` + QuoteMeta(v) + `$` on the content: without the
\* flag m, `$` is the end of the text only.
MarkerAtEnd(content, v) == HasSuffix(Last(content), MarkerLine(v))

\* Variant: an existence check that looks for the file under the interface
\* prefix only
clientExists_canonicalOnly(p, content, cl, name) ==
    \/ MarkerAtEnd(content, name)
    \/ MarkerAtEnd(content, PrefixedName(name))
    \/ MarkerAtEnd(content, DynamicPrefixedName(p, name))
    \/ fileExists(cl, StandardConfigPath(p, name))

\* clientExists, on the content read from the config file
clientExists(p, content, cl, name) ==
    \/ MarkerAtEnd(content, name)
    \/ MarkerAtEnd(content, PrefixedName(name))
    \/ MarkerAtEnd(content, DynamicPrefixedName(p, name))
    \/ fileExists(cl, StandardConfigPath(p, name))
    \/ fileExists(cl, AlternativeConfigPath(name))
    \/ fileExists(cl, SimpleConfigPath(name))

----------------------------------------------------------------------------
(* Listing *)

\* ^<prefix>(.+)\.conf$ : the group, or <<>> when the name does not match
PrefixedGroup(fileName, prefix) ==
    IF /\ Len(fileName) >= Len(prefix) + 1 + Len(S_conf)
       /\ HasPrefix(fileName, prefix)
       /\ HasSuffix(fileName, S_conf)
    THEN SubSeq(fileName, Len(prefix) + 1, Len(fileName) - Len(S_conf))
    ELSE <<>>

\* Variant: the interface prefix and the bare name, without the wg0 prefix
DerivedName_interfaceOnly(p, fileName) ==
    IF PrefixedGroup(fileName, p.ServerWGNIC \o S_client) # <<>>
    THEN PrefixedGroup(fileName, p.ServerWGNIC \o S_client)
    ELSE PrefixedGroup(fileName, <<>>)

\* Variant: the file name without ".conf", no prefix taken off
DerivedName_suffixOnly(p, fileName) == PrefixedGroup(fileName, <<>>)

\* The client name listWireGuardClients derives from a file name
DerivedName(p, fileName) ==
    IF PrefixedGroup(fileName, p.ServerWGNIC \o S_client) # <<>>
    THEN PrefixedGroup(fileName, p.ServerWGNIC \o S_client)
    ELSE IF PrefixedGroup(fileName, S_wg0_client) # <<>>
         THEN PrefixedGroup(fileName, S_wg0_client)
         ELSE PrefixedGroup(fileName, <<>>)

\* strings.TrimSpace, for the space character
RECURSIVE TrimSpace(_)
TrimSpace(line) ==
    IF line = <<>> THEN line
    ELSE IF line[1] = " " THEN TrimSpace(Tail(line))
    ELSE IF Last(line) = " " THEN TrimSpace(Front(line))
    ELSE line

\* strings.Split(x, "/")[0] when x contains "/", else ""
BeforeSlash(x) == IF Contains(x, <<"/">>) THEN Split(x, <<"/">>)[1] ELSE <<>>

\* The IPv4 and IPv6 fields listWireGuardClients extracts from a body
ParsedAddresses(body) ==
    LET isAddr(l) == HasPrefix(TrimSpace(body[l]), <<"Address = ">>)
        hits == {l \in DOMAIN body : isAddr(l)}
    IN  IF (\E l \in DOMAIN body : Contains(body[l], <<"[Interface]">>))
           /\ hits # {}
        THEN LET l == CHOOSE m \in hits : \A n \in hits : m <= n
                 addressLine == Tail(TrimSpace(body[l]))
                 addresses == Split(addressLine, <<",">>)
             IN  [IPV4 |-> BeforeSlash(addresses[1]),
                  IPV6 |-> IF Len(addresses) > 1 THEN BeforeSlash(addresses[2])
                           ELSE <<>>]
        ELSE [IPV4 |-> <<>>, IPV6 |-> <<>>]

\* Variant: of the files of one derived name, the one read first is kept
listWireGuardClients_firstWins(p, cl) ==
    LET files == {f \in DOMAIN cl : ~cl[f].isDir /\ DerivedName(p, f) # <<>>}
        firstFor(f) == \A g \in files :
                          DerivedName(p, g) = DerivedName(p, f) => ~StrLess(g, f)
    IN  {[Name |-> DerivedName(p, f),
          IPV4 |-> ParsedAddresses(cl[f].body).IPV4,
          IPV6 |-> ParsedAddresses(cl[f].body).IPV6,
          Config |-> cl[f].body] : f \in {g \in files : firstFor(g)}}

\* listWireGuardClients: the records of the map it builds, the files read in
\* the order of os.ReadDir (sorted by file name), a later file replacing an
\* earlier one of the same derived name.
listWireGuardClients(p, cl) ==
    LET files == {f \in DOMAIN cl : ~cl[f].isDir /\ DerivedName(p, f) # <<>>}
        lastFor(f) == \A g \in files :
                         DerivedName(p, g) = DerivedName(p, f) => ~StrLess(f, g)
    IN  {[Name |-> DerivedName(p, f),
          IPV4 |-> ParsedAddresses(cl[f].body).IPV4,
          IPV6 |-> ParsedAddresses(cl[f].body).IPV6,
          Config |-> cl[f].body] : f \in {g \in files : lastFor(g)}}

----------------------------------------------------------------------------
(* External commands *)

PrivateKeys == <<"kA">>

PublicKeys == <<"pA">>

PresharedKeys == <<"sA">>

\* The key pairs and pre-shared keys of two requests served at once
KeyPairs == <<[private |-> "kA", public |-> "pA"],
              [private |-> "kB", public |-> "pB"]>>

RequestPresharedKeys == <<"sA", "sB">>

\* wg pubkey: the public key of a private key
derivePublicKey(privateKey) ==
    (CHOOSE pair \in Range(KeyPairs) : pair.private = privateKey).public

\* The peers of a configuration as "wg-quick strip" renders them and
\* "wg syncconf" applies them: per [Peer] section, its lines up to the next
\* empty line.
PeerSection(content, i) ==
    LET stops == {j \in (i + 1)..Len(content) : content[j] = <<>>}
        stop == IF stops = {} THEN Len(content) + 1
                ELSE CHOOSE j \in stops : \A k \in stops : j <= k
    IN  {content[j] : j \in (i + 1)..(stop - 1)}

StrippedPeers(content) ==
    {PeerSection(content, i) : i \in {k \in DOMAIN content : content[k] = <<"[Peer]">>}}

\* Variant: a sync that reports success without applying anything
syncWireGuardConf_appliesNothing(content, dm, fault) ==
    [daemon |-> dm,
     err |-> IF fault = "strip" THEN "wg-quick strip command failed"
             ELSE IF fault = "syncconf" THEN "wg syncconf command failed"
             ELSE "",
     steps |-> IF fault = "strip" THEN <<"strip">> ELSE <<"strip", "syncconf">>]

\* Variant: a sync that runs wg syncconf a second time when it failed
syncWireGuardConf_retries(content, dm, fault) ==
    IF fault = "strip"
    THEN [daemon |-> dm, err |-> "wg-quick strip command failed",
          steps |-> <<"strip">>]
    ELSE [daemon |-> StrippedPeers(content), err |-> "",
          steps |-> IF fault = "syncconf" THEN <<"strip", "syncconf", "syncconf">>
                    ELSE <<"strip", "syncconf">>]

\* Variant: a sync that goes on to wg syncconf after a failed wg-quick strip
syncWireGuardConf_ignoresStrip(content, dm, fault) ==
    IF fault = "syncconf"
    THEN [daemon |-> dm, err |-> "wg syncconf command failed",
          steps |-> <<"strip", "syncconf">>]
    ELSE [daemon |-> StrippedPeers(content), err |-> "",
          steps |-> <<"strip", "syncconf">>]

\* syncWireGuardConf: the daemon's peers afterwards, the error and the
\* commands run.  fault names the command that fails, if any.
syncWireGuardConf(content, dm, fault) ==
    IF fault = "strip"
    THEN [daemon |-> dm, err |-> "wg-quick strip command failed",
          steps |-> <<"strip">>]
    ELSE IF fault = "syncconf"
         THEN [daemon |-> dm, err |-> "wg syncconf command failed",
               steps |-> <<"strip", "syncconf">>]
         ELSE [daemon |-> StrippedPeers(content), err |-> "",
               steps |-> <<"strip", "syncconf">>]

----------------------------------------------------------------------------
(* Adding a client *)

\* if strings.Contains(endpoint, ":") && !strings.Contains(endpoint, "[")
Endpoint(p) ==
    (IF Contains(p.ServerPubIP, <<":">>) /\ ~Contains(p.ServerPubIP, <<"[">>)
     THEN <<"[">> \o p.ServerPubIP \o <<"]">>
     ELSE p.ServerPubIP) \o <<":", p.ServerPort>>

\* Variant: a bundle whose PresharedKey line carries the client's private key
ClientConfig_otherPsk(p, privateKey, preSharedKey, ipv4, ipv6) ==
    << <<"[Interface]">>,
       <<"PrivateKey = ", privateKey>>,
       <<"Address = ">> \o ipv4 \o S_slash32 \o <<",">> \o ipv6 \o S_slash128,
       <<"DNS = ", p.ClientDNS1, ",", p.ClientDNS2>>,
       <<>>,
       <<"[Peer]">>,
       <<"PublicKey = ", p.ServerPubKey>>,
       <<"PresharedKey = ", privateKey>>,
       <<"Endpoint = ">> \o Endpoint(p),
       <<"AllowedIPs = ", p.AllowedIPs>>,
       <<>> >>

\* The bundle: clientConfig
ClientConfig(p, privateKey, preSharedKey, ipv4, ipv6) ==
    << <<"[Interface]">>,
       <<"PrivateKey = ", privateKey>>,
       <<"Address = ">> \o ipv4 \o S_slash32 \o <<",">> \o ipv6 \o S_slash128,
       <<"DNS = ", p.ClientDNS1, ",", p.ClientDNS2>>,
       <<>>,
       <<"[Peer]">>,
       <<"PublicKey = ", p.ServerPubKey>>,
       <<"PresharedKey = ", preSharedKey>>,
       <<"Endpoint = ">> \o Endpoint(p),
       <<"AllowedIPs = ", p.AllowedIPs>>,
       <<>> >>

\* The peer block: serverConfigUpdate
ServerConfigUpdate(name, publicKey, preSharedKey, ipv4, ipv6) ==
    << <<>>,
       MarkerLine(name),
       <<"[Peer]">>,
       <<"PublicKey = ", publicKey>>,
       <<"PresharedKey = ", preSharedKey>>,
       <<"AllowedIPs = ">> \o ipv4 \o S_slash32 \o <<",">> \o ipv6 \o S_slash128,
       <<>> >>

\* os.WriteFile(configPath, clientConfig, 0600)
WriteBundle(cl, path, body) ==
    [f \in DOMAIN cl \cup {path} |->
        IF f = path THEN [isDir |-> FALSE, body |-> body] ELSE cl[f]]

\* Variant: an add that takes back the bundle file and the block when the
\* sync fails
addWireGuardClient_rollsBack(p, content, cl, dm, name, ipv4, ipv6, privateKey, preSharedKey, fault) ==
    LET configPath == StandardConfigPath(p, name)
        clientConfig == ClientConfig(p, privateKey, preSharedKey, ipv4, ipv6)
        written == WriteBundle(cl, configPath, clientConfig)
        appended == TextCat(content,
                        ServerConfigUpdate(name, derivePublicKey(privateKey),
                                           preSharedKey, ipv4, ipv6))
        sync == syncWireGuardConf(appended, dm, fault)
        order == <<"mkdir", "stat", "genkey", "pubkey", "genpsk", "write", "open">>
        failsAt == {i \in DOMAIN order : order[i] = fault}
        early == IF fileExists(cl, configPath) THEN {2} ELSE failsAt
    IN  IF early # {}
        THEN [config |-> content,
              clients |-> IF early = {7} THEN written ELSE cl, daemon |-> dm,
              clientConfig |-> EmptyText, err |-> "failed",
              steps |-> SubSeq(order, 1, CHOOSE i \in early : TRUE)]
        ELSE [config |-> IF sync.err = "" THEN appended ELSE content,
              clients |-> IF sync.err = "" THEN written ELSE cl,
              daemon |-> sync.daemon,
              clientConfig |-> IF sync.err = "" THEN clientConfig ELSE EmptyText,
              err |-> IF sync.err = "" THEN ""
                      ELSE "failed to sync WireGuard config",
              steps |-> order \o <<"append">> \o sync.steps]

\* Variant: an add without the os.Stat of the bundle path, writing over a
\* file that is there
addWireGuardClient_overwrites(p, content, cl, dm, name, ipv4, ipv6, privateKey, preSharedKey, fault) ==
    LET configPath == StandardConfigPath(p, name)
        same == [config |-> content, clients |-> cl, daemon |-> dm,
                 clientConfig |-> EmptyText]
        clientConfig == ClientConfig(p, privateKey, preSharedKey, ipv4, ipv6)
        written == WriteBundle(cl, configPath, clientConfig)
        appended == TextCat(content,
                        ServerConfigUpdate(name, derivePublicKey(privateKey),
                                           preSharedKey, ipv4, ipv6))
        sync == syncWireGuardConf(appended, dm, fault)
        order == <<"mkdir", "stat", "genkey", "pubkey", "genpsk", "write", "open">>
        failsAt == {i \in DOMAIN order : order[i] = fault}
    IN  IF failsAt # {} /\ fault # "open"
        THEN same @@ [err |-> "failed",
                      steps |-> SubSeq(order, 1, CHOOSE i \in failsAt : TRUE)]
        ELSE IF fault = "open"
        THEN [config |-> content, clients |-> written, daemon |-> dm,
              clientConfig |-> EmptyText, err |-> "failed to open server config",
              steps |-> order]
        ELSE [config |-> appended, clients |-> written, daemon |-> sync.daemon,
              clientConfig |-> IF sync.err = "" THEN clientConfig ELSE EmptyText,
              err |-> IF sync.err = "" THEN ""
                      ELSE "failed to sync WireGuard config",
              steps |-> order \o <<"append">> \o sync.steps]

\* Variant: an add that creates the bundle file before it runs the key
\* commands, and leaves it when one of them fails
addWireGuardClient_createsFileFirst(p, content, cl, dm, name, ipv4, ipv6, privateKey, preSharedKey, fault) ==
    LET configPath == StandardConfigPath(p, name)
        same == [config |-> content, clients |-> cl, daemon |-> dm,
                 clientConfig |-> EmptyText]
        clientConfig == ClientConfig(p, privateKey, preSharedKey, ipv4, ipv6)
        written == WriteBundle(cl, configPath, clientConfig)
        appended == TextCat(content,
                        ServerConfigUpdate(name, derivePublicKey(privateKey),
                                           preSharedKey, ipv4, ipv6))
        sync == syncWireGuardConf(appended, dm, fault)
        order == <<"mkdir", "stat", "genkey", "pubkey", "genpsk", "write", "open">>
        failsAt == {i \in DOMAIN order : order[i] = fault}
        early == IF fault # "mkdir" /\ fileExists(cl, configPath) THEN {2}
                 ELSE failsAt
    IN  IF early # {}
        THEN [config |-> content,
              clients |-> IF early \subseteq 3..5 \/ early = {7}
                          THEN WriteBundle(cl, configPath, EmptyText) ELSE cl,
              daemon |-> dm, clientConfig |-> EmptyText,
              err |-> IF early = {2}
                      THEN "client configuration file already exists"
                      ELSE "failed",
              steps |-> SubSeq(order, 1, CHOOSE i \in early : TRUE)]
        ELSE [config |-> appended, clients |-> written, daemon |-> sync.daemon,
              clientConfig |-> IF sync.err = "" THEN clientConfig ELSE EmptyText,
              err |-> IF sync.err = "" THEN ""
                      ELSE "failed to sync WireGuard config",
              steps |-> order \o <<"append">> \o sync.steps]

\* addWireGuardClient.  fault names the call that fails, if any; the keys are
\* what the key commands print.
addWireGuardClient(p, content, cl, dm, name, ipv4, ipv6, privateKey, preSharedKey, fault) ==
    LET configPath == StandardConfigPath(p, name)
        same == [config |-> content, clients |-> cl, daemon |-> dm,
                 clientConfig |-> EmptyText]
        clientConfig == ClientConfig(p, privateKey, preSharedKey, ipv4, ipv6)
        written == WriteBundle(cl, configPath, clientConfig)
        appended == TextCat(content,
                        ServerConfigUpdate(name, derivePublicKey(privateKey),
                                           preSharedKey, ipv4, ipv6))
        sync == syncWireGuardConf(appended, dm, fault)
    IN  IF fault = "mkdir"
        THEN same @@ [err |-> "failed to create clients directory",
                      steps |-> <<"mkdir">>]
        ELSE IF fileExists(cl, configPath)
        THEN same @@ [err |-> "client configuration file already exists",
                      steps |-> <<"mkdir", "stat">>]
        ELSE IF fault = "genkey"
        THEN same @@ [err |-> "failed to generate private key",
                      steps |-> <<"mkdir", "stat", "genkey">>]
        ELSE IF fault = "pubkey"
        THEN same @@ [err |-> "failed to derive public key",
                      steps |-> <<"mkdir", "stat", "genkey", "pubkey">>]
        ELSE IF fault = "genpsk"
        THEN same @@ [err |-> "failed to generate pre-shared key",
                      steps |-> <<"mkdir", "stat", "genkey", "pubkey", "genpsk">>]
        ELSE IF fault = "write"
        THEN same @@ [err |-> "failed to write client config",
                      steps |-> <<"mkdir", "stat", "genkey", "pubkey", "genpsk",
                                  "write">>]
        ELSE IF fault = "open"
        THEN [config |-> content, clients |-> written, daemon |-> dm,
              clientConfig |-> EmptyText,
              err |-> "failed to open server config",
              steps |-> <<"mkdir", "stat", "genkey", "pubkey", "genpsk",
                          "write", "open">>]
        ELSE [config |-> appended, clients |-> written, daemon |-> sync.daemon,
              clientConfig |-> IF sync.err = "" THEN clientConfig ELSE EmptyText,
              err |-> IF sync.err = "" THEN ""
                      ELSE "failed to sync WireGuard config",
              steps |-> <<"mkdir", "stat", "genkey", "pubkey", "genpsk",
                          "write", "open", "append">> \o sync.steps]


\* A handler that takes both addresses from the allocators, whatever the
\* request carries
addUserHandlerGin_alwaysAllocates(p, content, cl, dm, req, privateKey, preSharedKey, fault) ==
    LET same == [config |-> content, clients |-> cl, daemon |-> dm, data |-> {}]
        auto4 == getNextAvailableIPv4(p, content)
        auto6 == getNextAvailableIPv6(p, content)
        pre6 == <<"validate", "exists", "allocIPv4", "allocIPv6">>
        r == addWireGuardClient(p, content, cl, dm, req.Name, auto4.ip, auto6.ip,
                                privateKey, preSharedKey, fault)
    IN  IF ~NameValid(req.Name)
        THEN same @@ [code |-> 400, message |-> "Client name must contain only alphanumeric characters, underscores, or dashes and be less than 16 characters",
                      steps |-> <<"validate">>]
        ELSE IF clientExists(p, content, cl, req.Name)
        THEN same @@ [code |-> 409,
                      message |-> "A client with this name already exists",
                      steps |-> <<"validate", "exists">>]
        ELSE IF auto4.err # ""
        THEN same @@ [code |-> 500, message |-> auto4.err,
                      steps |-> <<"validate", "exists", "allocIPv4">>]
        ELSE IF auto6.err # ""
        THEN same @@ [code |-> 500, message |-> auto6.err, steps |-> pre6]
        ELSE IF r.err # ""
        THEN [config |-> r.config, clients |-> r.clients, daemon |-> r.daemon,
              data |-> {}, code |-> 500, message |-> r.err,
              steps |-> pre6 \o r.steps]
        ELSE [config |-> r.config, clients |-> r.clients, daemon |-> r.daemon,
              data |-> {[Name |-> req.Name, IPV4 |-> auto4.ip, IPV6 |-> auto6.ip,
                         Config |-> r.clientConfig]},
              code |-> 200, message |-> "Client added successfully",
              steps |-> pre6 \o r.steps]

\* addUserHandlerGin on a bound request req = [Name, IPV4, IPV6] (an omitted
\* address is the empty string).  The result: the response and the stores
\* and daemon afterwards.
addUserHandlerGin(p, content, cl, dm, req, privateKey, preSharedKey, fault) ==
    LET same == [config |-> content, clients |-> cl, daemon |-> dm, data |-> {}]
        auto4 == getNextAvailableIPv4(p, content)
        ipv4 == IF req.IPV4 = <<>> THEN auto4.ip ELSE req.IPV4
        want6 == req.IPV6 = <<>> /\ p.ServerWGIPv6 # <<>>
        auto6 == getNextAvailableIPv6(p, content)
        ipv6 == IF want6 THEN auto6.ip ELSE req.IPV6
        pre == <<"validate", "exists">>
               \o (IF req.IPV4 = <<>> THEN <<"allocIPv4">> ELSE <<>>)
        pre6 == pre \o (IF want6 THEN <<"allocIPv6">> ELSE <<>>)
        r == addWireGuardClient(p, content, cl, dm, req.Name, ipv4, ipv6,
                                privateKey, preSharedKey, fault)
    IN  IF ~NameValid(req.Name)
        THEN same @@ [code |-> 400,
                      message |-> "Client name must contain only alphanumeric characters, underscores, or dashes and be less than 16 characters",
                      steps |-> <<"validate">>]
        ELSE IF fault = "existsRead"
        THEN same @@ [code |-> 500, message |-> "failed to read WireGuard config",
                      steps |-> <<"validate", "exists">>]
        ELSE IF clientExists(p, content, cl, req.Name)
        THEN same @@ [code |-> 409,
                      message |-> "A client with this name already exists",
                      steps |-> <<"validate", "exists">>]
        ELSE IF req.IPV4 = <<>> /\ auto4.err # ""
        THEN same @@ [code |-> 500, message |-> auto4.err, steps |-> pre]
        ELSE IF want6 /\ auto6.err # ""
        THEN same @@ [code |-> 500, message |-> auto6.err, steps |-> pre6]
        ELSE IF r.err # ""
        THEN [config |-> r.config, clients |-> r.clients, daemon |-> r.daemon,
              data |-> {}, code |-> 500, message |-> r.err,
              steps |-> pre6 \o r.steps]
        ELSE [config |-> r.config, clients |-> r.clients, daemon |-> r.daemon,
              data |-> {[Name |-> req.Name, IPV4 |-> ipv4, IPV6 |-> ipv6,
                         Config |-> r.clientConfig]},
              code |-> 200, message |-> "Client added successfully",
              steps |-> pre6 \o r.steps]

----------------------------------------------------------------------------
(* Deleting a client *)

\* Match of (?ms)^### Client <v>$.*?^$ : a line that is the marker of v,
\* with an empty line (or the end of a text that ends in a newline) after it.
EmptyLinesAfter(content, i) == {j \in (i + 1)..Len(content) : content[j] = <<>>}

BlockStarts(content, v, from) ==
    {i \in from..Len(content) :
        content[i] = MarkerLine(v) /\ EmptyLinesAfter(content, i) # {}}

BlockMatch(content, v) == BlockStarts(content, v, 1) # {}

\* Variant: a greedy match, from the marker line up to the last empty line
RECURSIVE ReplaceAllFrom_greedy(_, _, _)
ReplaceAllFrom_greedy(content, v, from) ==
    LET starts == BlockStarts(content, v, from)
    IN  IF starts = {} THEN content
        ELSE LET i == CHOOSE m \in starts : \A n \in starts : m <= n
             IN  SubSeq(content, 1, i - 1) \o <<<<>>>>

\* ReplaceAll(content, "") of that pattern: every match, from the marker
\* line up to the first empty line after it (that line stays), is cut out.
RECURSIVE ReplaceAllFrom(_, _, _)
ReplaceAllFrom(content, v, from) ==
    LET starts == BlockStarts(content, v, from)
    IN  IF starts = {} THEN content
        ELSE LET i == CHOOSE m \in starts : \A n \in starts : m <= n
                 ends == EmptyLinesAfter(content, i)
                 j == CHOOSE m \in ends : \A n \in ends : m <= n
             IN  ReplaceAllFrom(SubSeq(content, 1, i - 1)
                                \o SubSeq(content, j, Len(content)), v, i)

ReplaceAll(content, v) == ReplaceAllFrom(content, v, 1)

\* The branch of deleteWireGuardClient that edits the config: the text it
\* writes back, or the content itself when no pattern matches (no write).
EditedConfig(p, content, name) ==
    IF BlockMatch(content, name) THEN ReplaceAll(content, name)
    ELSE IF BlockMatch(content, PrefixedName(name))
         THEN ReplaceAll(content, PrefixedName(name))
         ELSE IF BlockMatch(content, DynamicPrefixedName(p, name))
              THEN ReplaceAll(content, DynamicPrefixedName(p, name))
              ELSE content

\* Variant: the config file is written back whether or not a block matched
ConfigIsRewritten_always(p, content, name) == TRUE

ConfigIsRewritten(p, content, name) ==
    \/ BlockMatch(content, name)
    \/ BlockMatch(content, PrefixedName(name))
    \/ BlockMatch(content, DynamicPrefixedName(p, name))

\* Variant: the standard path alone
ConfigPaths_standardOnly(p, name) == {StandardConfigPath(p, name)}

\* configPaths := []string{standardConfigPath, alternativeConfigPath, simpleConfigPath}
ConfigPaths(p, name) ==
    {StandardConfigPath(p, name), AlternativeConfigPath(name), SimpleConfigPath(name)}

\* Variant: no file is removed
RemoveBundles_none(cl, paths) == cl

\* os.Remove of every existing path
RemoveBundles(cl, paths) == [f \in DOMAIN cl \ paths |-> cl[f]]

\* Variant: a delete that goes on to the sync after a failed os.Remove
deleteWireGuardClient_syncsAfterFailedRemove(p, content, cl, dm, name, fault) ==
    LET rewrite == ConfigIsRewritten(p, content, name)
        newContent == EditedConfig(p, content, name)
        present == {f \in ConfigPaths(p, name) : fileExists(cl, f)}
        s1 == <<"read">> \o (IF rewrite THEN <<"writecfg">> ELSE <<>>)
        s2 == s1 \o (IF present # {} THEN <<"remove">> ELSE <<>>)
        sync == syncWireGuardConf(newContent, dm, fault)
    IN  IF fault = "read"
        THEN [config |-> content, clients |-> cl, daemon |-> dm,
              err |-> "failed to read WireGuard config", steps |-> <<"read">>]
        ELSE IF rewrite /\ fault = "writecfg"
        THEN [config |-> content, clients |-> cl, daemon |-> dm,
              err |-> "failed to update server config", steps |-> s1]
        ELSE [config |-> newContent,
              clients |-> IF fault = "remove" THEN cl
                          ELSE RemoveBundles(cl, present),
              daemon |-> sync.daemon,
              err |-> IF present # {} /\ fault = "remove"
                      THEN "failed to delete client config"
                      ELSE IF sync.err = "" THEN ""
                      ELSE "failed to sync WireGuard config",
              steps |-> s2 \o sync.steps]

\* deleteWireGuardClient.  fault names the call that fails, if any.
deleteWireGuardClient(p, content, cl, dm, name, fault) ==
    LET rewrite == ConfigIsRewritten(p, content, name)
        newContent == EditedConfig(p, content, name)
        present == {f \in ConfigPaths(p, name) : fileExists(cl, f)}
        s1 == <<"read">> \o (IF rewrite THEN <<"writecfg">> ELSE <<>>)
        s2 == s1 \o (IF present # {} THEN <<"remove">> ELSE <<>>)
        sync == syncWireGuardConf(newContent, dm, fault)
    IN  IF fault = "read"
        THEN [config |-> content, clients |-> cl, daemon |-> dm,
              err |-> "failed to read WireGuard config", steps |-> <<"read">>]
        ELSE IF rewrite /\ fault = "writecfg"
        THEN [config |-> content, clients |-> cl, daemon |-> dm,
              err |-> "failed to update server config", steps |-> s1]
        ELSE IF present # {} /\ fault = "remove"
        THEN [config |-> newContent, clients |-> cl, daemon |-> dm,
              err |-> "failed to delete client config", steps |-> s2]
        ELSE [config |-> newContent, clients |-> RemoveBundles(cl, present),
              daemon |-> sync.daemon,
              err |-> IF sync.err = "" THEN ""
                      ELSE "failed to sync WireGuard config",
              steps |-> s2 \o sync.steps]

\* Variant: the handler without the existence check
deleteUserHandlerGin_noCheck(p, content, cl, dm, name, fault) ==
    LET r == deleteWireGuardClient(p, content, cl, dm, name, fault)
    IN  [config |-> r.config, clients |-> r.clients, daemon |-> r.daemon,
         data |-> {},
         code |-> IF r.err = "" THEN 200 ELSE 500,
         message |-> IF r.err = "" THEN "Client deleted successfully" ELSE r.err,
         steps |-> <<"exists">> \o r.steps]

\* deleteUserHandlerGin on a bound request for name
deleteUserHandlerGin(p, content, cl, dm, name, fault) ==
    LET same == [config |-> content, clients |-> cl, daemon |-> dm, data |-> {}]
        r == deleteWireGuardClient(p, content, cl, dm, name, fault)
    IN  IF fault = "existsRead"
        THEN same @@ [code |-> 500, message |-> "failed to read WireGuard config",
                      steps |-> <<"exists">>]
        ELSE IF ~clientExists(p, content, cl, name)
        THEN same @@ [code |-> 404, message |-> "Client not found",
                      steps |-> <<"exists">>]
        ELSE [config |-> r.config, clients |-> r.clients, daemon |-> r.daemon,
              data |-> {},
              code |-> IF r.err = "" THEN 200 ELSE 500,
              message |-> IF r.err = "" THEN "Client deleted successfully"
                          ELSE r.err,
              steps |-> <<"exists">> \o r.steps]

----------------------------------------------------------------------------
(* The parameters file *)

\* The file the installer writes and loadWGParams reads back: one line
\* KEY=value per field.  A value the model keeps opaque is one symbol.
ParamsFile(p) ==
    << <<"SERVER_PUB_IP", "=">> \o p.ServerPubIP,
       <<"SERVER_PUB_NIC", "=", p.ServerPubNIC>>,
       <<"SERVER_WG_NIC", "=">> \o p.ServerWGNIC,
       <<"SERVER_WG_IPV4", "=">> \o p.ServerWGIPv4,
       <<"SERVER_WG_IPV6", "=">> \o p.ServerWGIPv6,
       <<"SERVER_PORT", "=", p.ServerPort>>,
       <<"SERVER_PRIV_KEY", "=", p.ServerPrivKey>>,
       <<"SERVER_PUB_KEY", "=", p.ServerPubKey>>,
       <<"CLIENT_DNS_1", "=", p.ClientDNS1>>,
       <<"CLIENT_DNS_2", "=", p.ClientDNS2>>,
       <<"ALLOWED_IPS", "=", p.AllowedIPs>>,
       <<>> >>

\* Variant: a loader that leaves the quote characters on the values
loadWGParams_keepsQuotes(text) ==
    LET assigns(l) == \E i \in DOMAIN text[l] : text[l][i] = "="
        eq(l) == CHOOSE i \in DOMAIN text[l] :
                     text[l][i] = "=" /\ \A j \in 1..(i - 1) : text[l][j] # "="
        key(l) == TrimSpace(SubSeq(text[l], 1, eq(l) - 1))
        value(l) == TrimSpace(SubSeq(text[l], eq(l) + 1, Len(text[l])))
        params(k) ==
            LET set == {l \in DOMAIN text : assigns(l) /\ key(l) = <<k>>}
            IN  IF set = {} THEN <<>>
                ELSE value(CHOOSE l \in set : \A m \in set : m <= l)
        loaded == [ServerPubIP |-> params("SERVER_PUB_IP"),
                   ServerPubNIC |-> params("SERVER_PUB_NIC"),
                   ServerWGNIC |-> params("SERVER_WG_NIC"),
                   ServerWGIPv4 |-> params("SERVER_WG_IPV4"),
                   ServerWGIPv6 |-> params("SERVER_WG_IPV6"),
                   ServerPort |-> params("SERVER_PORT"),
                   ServerPrivKey |-> params("SERVER_PRIV_KEY"),
                   ServerPubKey |-> params("SERVER_PUB_KEY"),
                   ClientDNS1 |-> params("CLIENT_DNS_1"),
                   ClientDNS2 |-> params("CLIENT_DNS_2"),
                   AllowedIPs |-> params("ALLOWED_IPS")]
    IN  [params |-> loaded,
         err |-> IF \/ loaded.ServerPubIP = <<>> \/ loaded.ServerWGNIC = <<>>
                    \/ loaded.ServerPubKey = <<>> \/ loaded.ServerPort = <<>>
                    \/ loaded.ServerWGIPv4 = <<>>
                 THEN "required WireGuard parameters missing"
                 ELSE ""]

\* loadWGParams on the lines of the file: per line strings.SplitN(line, "=", 2),
\* the key and the value trimmed of spaces, the value then of the characters
\* " and ' at both ends; a later line of a key replaces an earlier one.  The
\* fields are assigned whether or not the required ones are there.
loadWGParams(text) ==
    LET assigns(l) == \E i \in DOMAIN text[l] : text[l][i] = "="
        eq(l) == CHOOSE i \in DOMAIN text[l] :
                     text[l][i] = "=" /\ \A j \in 1..(i - 1) : text[l][j] # "="
        key(l) == TrimSpace(SubSeq(text[l], 1, eq(l) - 1))
        value(l) ==
            LET v == TrimSpace(SubSeq(text[l], eq(l) + 1, Len(text[l])))
                kept == {i \in DOMAIN v : v[i] \notin {"\"", "'"}}
            IN  IF kept = {} THEN <<>>
                ELSE SubSeq(v, CHOOSE i \in kept : \A j \in kept : i <= j,
                               CHOOSE i \in kept : \A j \in kept : j <= i)
        params(k) ==
            LET set == {l \in DOMAIN text : assigns(l) /\ key(l) = <<k>>}
            IN  IF set = {} THEN <<>>
                ELSE value(CHOOSE l \in set : \A m \in set : m <= l)
        loaded == [ServerPubIP |-> params("SERVER_PUB_IP"),
                   ServerPubNIC |-> params("SERVER_PUB_NIC"),
                   ServerWGNIC |-> params("SERVER_WG_NIC"),
                   ServerWGIPv4 |-> params("SERVER_WG_IPV4"),
                   ServerWGIPv6 |-> params("SERVER_WG_IPV6"),
                   ServerPort |-> params("SERVER_PORT"),
                   ServerPrivKey |-> params("SERVER_PRIV_KEY"),
                   ServerPubKey |-> params("SERVER_PUB_KEY"),
                   ClientDNS1 |-> params("CLIENT_DNS_1"),
                   ClientDNS2 |-> params("CLIENT_DNS_2"),
                   AllowedIPs |-> params("ALLOWED_IPS")]
    IN  [params |-> loaded,
         err |-> IF \/ loaded.ServerPubIP = <<>> \/ loaded.ServerWGNIC = <<>>
                    \/ loaded.ServerPubKey = <<>> \/ loaded.ServerPort = <<>>
                    \/ loaded.ServerWGIPv4 = <<>>
                 THEN "required WireGuard parameters missing"
                 ELSE ""]

----------------------------------------------------------------------------
(* The server: state, requests and faults *)

\* Most peer blocks ever appended to the config file in one run
MaxAppends == 2

S_a == <<"a">>

S_b == <<"b">>

S_10_66_66_5 == <<"1", "0", ".", "6", "6", ".", "6", "6", ".", "5">>

S_fd42_5 == <<"f", "d", "4", "2", ":", "4", "2", ":", "4", "2", ":", ":", "5">>

\* The client names of the requests
Names == {S_a, S_wg0_client \o S_a}

\* The ipv4 and ipv6 fields of the add requests; <<>> is an omitted field
RequestIPv4Auto == <<>>

RequestIPv6Auto == <<>>

\* The address fields of the add requests: both omitted, or both given
RequestAddresses == {<<RequestIPv4Auto, RequestIPv6Auto>>, <<S_10_66_66_5, S_fd42_5>>}

AddRequests ==
    {[Name |-> n, IPV4 |-> a[1], IPV6 |-> a[2]] : n \in Names, a \in RequestAddresses}

AddFaults == {"none", "open", "syncconf"}

DeleteFaults == {"none", "remove", "syncconf"}

\* loadWGParams: the parameters of the servers modelled
Params ==
    [ServerPubIP : {<<"h">>}, ServerPubNIC : {"eth0"},
     ServerWGNIC : {S_wg0, S_wg1},
     ServerWGIPv4 : {S_10_66_66_1}, ServerWGIPv6 : {<<>>, S_fd42_1},
     ServerPort : {"51820"}, ServerPrivKey : {"kS"}, ServerPubKey : {"pS"},
     ClientDNS1 : {"1.1.1.1"}, ClientDNS2 : {"1.0.0.1"},
     AllowedIPs : {"0.0.0.0/0,::/0"}]

\* The config file of a server without clients: the [Interface] section
InterfaceSection(p) ==
    << <<"[Interface]">>,
       <<"Address = ">> \o p.ServerWGIPv4 \o S_slash24
           \o (IF p.ServerWGIPv6 = <<>> THEN <<>>
               ELSE <<",">> \o p.ServerWGIPv6 \o S_slash64),
       <<"ListenPort = ", p.ServerPort>>,
       <<"PrivateKey = ", p.ServerPrivKey>>,
       <<>> >>

NoFiles == [f \in {} |-> [isDir |-> FALSE, body |-> EmptyText]]

Init ==
    /\ wgParams \in Params
    /\ config = InterfaceSection(wgParams)
    /\ clients = NoFiles
    /\ daemon = StrippedPeers(config)
    /\ resp = [op |-> "start", name |-> <<>>, code |-> 0, message |-> "",
               data |-> {}]
    /\ steps = <<>>
    /\ added = {}
    /\ inflight = <<>>
    /\ paramsFile = ParamsFile(wgParams)

\* GET /api/users
ListClients ==
    /\ resp' = [op |-> "list", name |-> <<>>, code |-> 200, message |-> "",
                data |-> listWireGuardClients(wgParams, clients)]
    /\ steps' = <<"list">>
    /\ UNCHANGED <<paramsFile, wgParams, config, clients, daemon, added, inflight>>

\* POST /api/users/add
AddClient(req, privateKey, preSharedKey, fault) ==
    /\ \E r \in {addUserHandlerGin(wgParams, config, clients, daemon, req,
                                    privateKey, preSharedKey, fault)} :
           /\ config' = r.config
           /\ clients' = r.clients
           /\ daemon' = r.daemon
           /\ resp' = [op |-> "add", name |-> req.Name, code |-> r.code,
                       message |-> r.message, data |-> r.data]
           /\ steps' = r.steps
           /\ added' = IF r.code = 200 THEN added \cup {req.Name} ELSE added
    /\ UNCHANGED <<paramsFile, wgParams, inflight>>

\* POST /api/users/delete
DeleteClient(name, fault) ==
    /\ \E r \in {deleteUserHandlerGin(wgParams, config, clients, daemon,
                                       name, fault)} :
           /\ config' = r.config
           /\ clients' = r.clients
           /\ daemon' = r.daemon
           /\ resp' = [op |-> "delete", name |-> name, code |-> r.code,
                       message |-> r.message, data |-> r.data]
           /\ steps' = r.steps
           /\ added' = IF "read" \in Range(r.steps) THEN added \ {name} ELSE added
    /\ UNCHANGED <<paramsFile, wgParams, inflight>>

\* Every append leaves one more empty line in the file, whatever is deleted
\* later: the appends so far, given the empty lines of the initial file.
Appends(initialEmpty) ==
    Cardinality({l \in DOMAIN config : config[l] = <<>>}) - initialEmpty

Next ==
    \/ ListClients
    \/ \E req \in AddRequests, k \in Range(PrivateKeys), s \in Range(PresharedKeys),
          fault \in AddFaults :
          Appends(1) < MaxAppends /\ AddClient(req, k, s, fault)
    \/ \E name \in Names, fault \in DeleteFaults : DeleteClient(name, fault)

Spec == Init /\ [][Next]_vars

----------------------------------------------------------------------------
(* A server whose address pools are partly or wholly taken: besides the    *)
(* [Interface] section the config file holds one peer entered by other     *)
(* tooling, with one AllowedIPs line per address it routes.                *)

\* Most peer blocks appended in one run of the pool specification
MaxPoolAppends == 2

S_pool == <<"p", "o", "o", "l">>

S_10x66x66_2 == <<"1", "0", "-", "6", "6", "-", "6", "6", ".", "2">>

PoolParams == {p \in Params : p.ServerWGNIC = S_wg0 /\ p.ServerWGIPv6 # <<>>}

BaseIPv4(p) == Join3(Split(p.ServerWGIPv4, <<".">>))

BaseIPv6(p) == Split(p.ServerWGIPv6, <<":", ":">>)[1]

PoolLineIPv4(p, k) ==
    <<"AllowedIPs = ">> \o BaseIPv4(p) \o <<".">> \o FormatDec(k) \o S_slash32

PoolLineIPv6(p, k) ==
    <<"AllowedIPs = ">> \o BaseIPv6(p) \o <<":", ":">> \o FormatDec(k) \o S_slash128

\* The numbers of lo..hi that are in used, ascending
Ascending(lo, hi, used) ==
    SelectSeq([i \in 1..(hi - lo + 1) |-> lo + i - 1], LAMBDA k : k \in used)

ForeignPeer(p, used4, used6) ==
    LET n4 == Ascending(PoolFirst, PoolLast, used4)
        n6 == Ascending(PoolFirst, PoolLast, used6)
    IN  << <<>>, MarkerLine(S_pool), <<"[Peer]">>, <<"PublicKey = ", "pF">>,
           <<"PresharedKey = ", "sF">> >>
        \o [i \in DOMAIN n4 |-> PoolLineIPv4(p, n4[i])]
        \o [i \in DOMAIN n6 |-> PoolLineIPv6(p, n6[i])]
        \o << <<>> >>

\* The host numbers the foreign peer leaves free, and those it takes in IPv6
PoolFreeIPv4 == {{}, {PoolLast}, {7, 100}, PoolFirst..PoolLast}

PoolUsedIPv6 == {{}, PoolFirst..9}

PoolNames == {S_a, S_b}

PoolRequests ==
    {[Name |-> n, IPV4 |-> a, IPV6 |-> <<>>] :
        n \in PoolNames, a \in {RequestIPv4Auto, S_10x66x66_2}}

PoolInit ==
    /\ wgParams \in PoolParams
    /\ \E free4 \in PoolFreeIPv4, used6 \in PoolUsedIPv6 :
          config = TextCat(InterfaceSection(wgParams),
                           ForeignPeer(wgParams, (PoolFirst..PoolLast) \ free4, used6))
    /\ clients = NoFiles
    /\ daemon = StrippedPeers(config)
    /\ resp = [op |-> "start", name |-> <<>>, code |-> 0, message |-> "",
               data |-> {}]
    /\ steps = <<>>
    /\ added = {}
    /\ inflight = <<>>
    /\ paramsFile = ParamsFile(wgParams)

PoolNext ==
    \/ ListClients
    \/ \E req \in PoolRequests, k \in Range(PrivateKeys), s \in Range(PresharedKeys) :
          Appends(2) < MaxPoolAppends /\ AddClient(req, k, s, "none")
    \/ \E name \in PoolNames : DeleteClient(name, "none")

SpecPool == PoolInit /\ [][PoolNext]_vars

----------------------------------------------------------------------------
(* The router: authentication, then the handler of the route *)

\* getEnv("API_TOKEN", "your-secure-api-token")
API_TOKEN == "your-secure-api-token"

\* Variant: only a missing token is refused
authMiddleware_missingOnly(token) ==
    IF token = "" THEN [code |-> 401, message |-> "Missing API token"]
    ELSE [code |-> 0, message |-> ""]

\* authMiddleware on the value of the header "key" ("" when the header is
\* missing); code 0 stands for c.Next()
authMiddleware(token) ==
    IF token = "" THEN [code |-> 401, message |-> "Missing API token"]
    ELSE IF token # API_TOKEN
         THEN [code |-> 401, message |-> "Invalid API token"]
         ELSE [code |-> 0, message |-> ""]

\* wireGuardStartHandlerGin, wireGuardStopHandlerGin, wireGuardRestartHandlerGin:
\* systemctl <verb> wg-quick@<interface>, and for start and restart the test
\* is-active.  A started interface has the peers of its config file, a
\* stopped one has none.  fault names the command that fails, if any.
serviceControl(verb, content, dm, fault) ==
    LET cmd == <<"systemctl " \o verb>>
    IN  IF fault = "systemctl"
        THEN [daemon |-> dm, code |-> 500,
              message |-> "Failed to " \o verb \o " WireGuard service",
              steps |-> cmd]
        ELSE IF verb = "stop"
        THEN [daemon |-> {}, code |-> 200,
              message |-> "WireGuard service stopped successfully",
              steps |-> cmd]
        ELSE IF fault = "is-active"
        THEN [daemon |-> {}, code |-> 500,
              message |-> "WireGuard service failed to " \o verb \o " properly",
              steps |-> cmd \o <<"is-active">>]
        ELSE [daemon |-> StrippedPeers(content), code |-> 200,
              message |-> "WireGuard service " \o verb \o "ed successfully",
              steps |-> cmd \o <<"is-active">>]

\* One request through router.Use(authMiddleware()) and the route's handler.
\* call = [route, Name, IPV4, IPV6]; the result: the response, the stores and
\* the daemon afterwards, and the steps taken.
router(p, content, cl, dm, token, call, privateKey, preSharedKey, fault) ==
    LET same == [config |-> content, clients |-> cl, daemon |-> dm, data |-> {}]
        auth == authMiddleware(token)
        add == addUserHandlerGin(p, content, cl, dm,
                                 [Name |-> call.Name, IPV4 |-> call.IPV4,
                                  IPV6 |-> call.IPV6],
                                 privateKey, preSharedKey, fault)
        del == deleteUserHandlerGin(p, content, cl, dm, call.Name, fault)
        svc == serviceControl(call.route, content, dm, fault)
    IN  IF auth.code # 0
        THEN same @@ [code |-> auth.code, message |-> auth.message,
                      steps |-> <<"auth">>]
        ELSE IF call.route = "list"
        THEN [config |-> content, clients |-> cl, daemon |-> dm,
              data |-> listWireGuardClients(p, cl), code |-> 200,
              message |-> "", steps |-> <<"auth", "list">>]
        ELSE IF call.route = "status"
        THEN same @@ [code |-> 200, message |-> "",
                      steps |-> <<"auth", "wg show">>]
        ELSE IF call.route = "add"
        THEN [config |-> add.config, clients |-> add.clients,
              daemon |-> add.daemon, data |-> add.data, code |-> add.code,
              message |-> add.message, steps |-> <<"auth">> \o add.steps]
        ELSE IF call.route = "delete"
        THEN [config |-> del.config, clients |-> del.clients,
              daemon |-> del.daemon, data |-> del.data, code |-> del.code,
              message |-> del.message, steps |-> <<"auth">> \o del.steps]
        ELSE [config |-> content, clients |-> cl, daemon |-> svc.daemon,
              data |-> {}, code |-> svc.code, message |-> svc.message,
              steps |-> <<"auth">> \o svc.steps]

S_abcde == <<"a", "b", "c", "d", "e">>

\* A name of 15 characters and one of 16
S_name15 == S_wg0_client \o <<"a", "b", "c", "d">>

S_name16 == S_wg0_client \o S_abcde

S_bad_name == <<"a", " ", "b">>

ApiNames == {<<>>, S_bad_name, S_abcde, S_name15, S_name16}

ApiTokens == {"", "wrong-token", API_TOKEN}

ApiCalls ==
    {[route |-> r, Name |-> <<>>, IPV4 |-> <<>>, IPV6 |-> <<>>] :
        r \in {"list", "status", "start", "stop", "restart"}}
    \cup {[route |-> "add", Name |-> n, IPV4 |-> a[1], IPV6 |-> a[2]] :
            n \in ApiNames, a \in RequestAddresses}
    \cup {[route |-> "delete", Name |-> n, IPV4 |-> <<>>, IPV6 |-> <<>>] :
            n \in ApiNames}

ApiParams == {p \in Params : p.ServerWGNIC = S_wg0 /\ p.ServerWGIPv6 # <<>>}

ApiInit ==
    /\ wgParams \in ApiParams
    /\ config = InterfaceSection(wgParams)
    /\ clients = NoFiles
    /\ daemon = StrippedPeers(config)
    /\ resp = [op |-> "start", name |-> <<>>, code |-> 0, message |-> "",
               data |-> {}]
    /\ steps = <<>>
    /\ added = {}
    /\ inflight = <<>>
    /\ paramsFile = ParamsFile(wgParams)

\* One request with the header "key" set to token
ApiRequest(token, call, privateKey, preSharedKey, fault) ==
    /\ \E r \in {router(wgParams, config, clients, daemon, token, call,
                       privateKey, preSharedKey, fault)} :
           /\ config' = r.config
           /\ clients' = r.clients
           /\ daemon' = r.daemon
           /\ resp' = [op |-> call.route, name |-> call.Name, code |-> r.code,
                       message |-> r.message, data |-> r.data]
           /\ steps' = r.steps
           /\ added' = IF call.route = "add" /\ r.code = 200
                       THEN added \cup {call.Name}
                       ELSE IF call.route = "delete" /\ "read" \in Range(r.steps)
                       THEN added \ {call.Name}
                       ELSE added
    /\ UNCHANGED <<paramsFile, wgParams, inflight>>

ApiNext ==
    \E token \in ApiTokens, call \in ApiCalls,
       k \in Range(PrivateKeys), s \in Range(PresharedKeys) :
        /\ (call.route # "add" \/ Appends(1) < MaxAppends)
        /\ ApiRequest(token, call, k, s, "none")

SpecApi == ApiInit /\ [][ApiNext]_vars

----------------------------------------------------------------------------
(* A server taken over from an installation on wg0: for each client of that *)
(* installation the config file has its block and the bundle directory its  *)
(* file wg0-client-<name>.conf.                                             *)

\* Most peer blocks in the config file, those of the old installation
\* included
MaxLegacyBlocks == 3

S_a_client_b == S_a \o S_client \o S_b

\* The interface names: wg0, wg1, and one that itself starts with wg0-client-
LegacyParams ==
    {[p EXCEPT !.ServerWGNIC = nic] :
        p \in ApiParams, nic \in {S_wg0, S_wg1, S_wg0_client \o S_a}}

LegacyNames == {S_a, S_b, S_a_client_b}

\* The host number of a client of the old installation
LegacyHost(name) == IF name = S_a THEN <<"2">> ELSE <<"3">>

LegacyBlock(p, name) ==
    ServerConfigUpdate(name, "pA", "sA",
                       BaseIPv4(p) \o <<".">> \o LegacyHost(name),
                       BaseIPv6(p) \o <<":", ":">> \o LegacyHost(name))

LegacyBundle(p, name) ==
    ClientConfig(p, "kA", "sA",
                 BaseIPv4(p) \o <<".">> \o LegacyHost(name),
                 BaseIPv6(p) \o <<":", ":">> \o LegacyHost(name))

LegacyInit ==
    /\ wgParams \in LegacyParams
    /\ \E old \in SUBSET {S_a, S_a_client_b} :
          /\ config =
                (IF S_a_client_b \in old
                 THEN TextCat(IF S_a \in old
                              THEN TextCat(InterfaceSection(wgParams),
                                           LegacyBlock(wgParams, S_a))
                              ELSE InterfaceSection(wgParams),
                              LegacyBlock(wgParams, S_a_client_b))
                 ELSE IF S_a \in old
                      THEN TextCat(InterfaceSection(wgParams),
                                   LegacyBlock(wgParams, S_a))
                      ELSE InterfaceSection(wgParams))
          /\ clients = [f \in {AlternativeConfigPath(n) : n \in old} |->
                           [isDir |-> FALSE,
                            body |-> LegacyBundle(wgParams,
                                        CHOOSE n \in old :
                                            AlternativeConfigPath(n) = f)]]
    /\ daemon = StrippedPeers(config)
    /\ resp = [op |-> "start", name |-> <<>>, code |-> 0, message |-> "",
               data |-> {}]
    /\ steps = <<>>
    /\ added = {}
    /\ inflight = <<>>
    /\ paramsFile = ParamsFile(wgParams)

AutoRequest(name) == [Name |-> name, IPV4 |-> <<>>, IPV6 |-> <<>>]

LegacyNext ==
    \/ ListClients
    \/ \E name \in LegacyNames, k \in Range(PrivateKeys), s \in Range(PresharedKeys) :
          /\ Appends(1) < MaxLegacyBlocks
          /\ AddClient(AutoRequest(name), k, s, "none")
    \/ \E name \in LegacyNames : DeleteClient(name, "none")

SpecLegacy == LegacyInit /\ [][LegacyNext]_vars

----------------------------------------------------------------------------
(* One client added and deleted, with every form of the address fields and *)
(* every call of the add and of the delete failing in turn                 *)

\* The address fields of an add request: each omitted or given
AddressForms == {<<i4, i6>> : i4 \in {RequestIPv4Auto, S_10_66_66_5},
                              i6 \in {RequestIPv6Auto, S_fd42_5}}

\* What may fail during an add
AddStepFaults ==
    {"none", "existsRead", "mkdir", "genkey", "pubkey", "genpsk", "write", "open",
     "strip", "syncconf"}

\* What may fail during a delete
DeleteStepFaults ==
    {"none", "existsRead", "read", "writecfg", "remove", "strip", "syncconf"}

AddStepsNext ==
    \/ \E a \in AddressForms, fault \in AddStepFaults :
          /\ Appends(1) < MaxAppends
          /\ AddClient([Name |-> S_abcde, IPV4 |-> a[1], IPV6 |-> a[2]],
                       "kA", "sA", fault)
    \/ \E fault \in DeleteStepFaults : DeleteClient(S_abcde, fault)

SpecAddSteps == Init /\ [][AddStepsNext]_vars

----------------------------------------------------------------------------
(* Two requests served at once.  gin serves every request in a goroutine   *)
(* of its own and no lock guards the config file or the bundle directory:  *)
(* each request goes through the file operations and commands of its       *)
(* handler one at a time, in the order of the code, and the operations of  *)
(* the two requests interleave freely.  inflight[i] is the position of     *)
(* request i and the values of its local variables.                        *)

Requests == 1..2

\* The names that have a marker line in a text
MarkedNames(content) ==
    {Tail(content[l]) : l \in {k \in DOMAIN content :
                                 content[k] # <<>> /\ content[k][1] = "### Client "}}

\* A request not yet received.  content: what the request read from the
\* config file (the allocator's read of an add, the read of a delete);
\* stripped: the output of wg-quick strip; lost: the names whose marker was
\* in the file and not in content when a delete wrote content back.
Idle ==
    [op |-> "idle", Name |-> <<>>, pc |-> "idle", content |-> EmptyText,
     ipv4 |-> <<>>, ipv6 |-> <<>>, stripped |-> {}, code |-> 0, lost |-> {}]

\* The requests: adds without addresses of a and of b, a delete of b
RaceCalls ==
    {[op |-> "add", Name |-> S_a], [op |-> "add", Name |-> S_b],
     [op |-> "delete", Name |-> S_b]}

\* The server is empty, or b was added to it before
RaceInit ==
    /\ wgParams \in ApiParams
    /\ \/ /\ config = InterfaceSection(wgParams)
          /\ clients = NoFiles
          /\ daemon = {}
       \/ \E before \in {addUserHandlerGin(wgParams, InterfaceSection(wgParams),
                                            NoFiles, {}, AutoRequest(S_b),
                                            "kA", "sA", "none")} :
             /\ config = before.config
             /\ clients = before.clients
             /\ daemon = before.daemon
    /\ resp = [op |-> "start", name |-> <<>>, code |-> 0, message |-> "",
               data |-> {}]
    /\ steps = <<>>
    /\ added = {}
    /\ inflight = [i \in Requests |-> Idle]
    /\ paramsFile = ParamsFile(wgParams)

\* Request i moves to position pc with the local variables changed as in
\* the record changed
Goes(i, pc, changed) ==
    inflight' = [inflight EXCEPT ![i] =
                    [f \in DOMAIN Idle |->
                        IF f = "pc" THEN pc
                        ELSE IF f \in DOMAIN changed THEN changed[f]
                        ELSE inflight[i][f]]]

Answers(i, code) == Goes(i, "done", [code |-> code])

At(i, op, pc) == inflight[i].op = op /\ inflight[i].pc = pc

Receive(i, call) ==
    /\ inflight[i].op = "idle"
    /\ Goes(i, "exists", [op |-> call.op, Name |-> call.Name])
    /\ UNCHANGED <<paramsFile, wgParams, config, clients, daemon, resp, steps, added>>

\* clientExists of either handler
RaceExists(i) ==
    /\ inflight[i].pc = "exists"
    /\ IF inflight[i].op = "add"
       THEN IF clientExists(wgParams, config, clients, inflight[i].Name)
            THEN Answers(i, 409)
            ELSE Goes(i, "allocIPv4", <<>>)
       ELSE IF clientExists(wgParams, config, clients, inflight[i].Name)
            THEN Goes(i, "read", <<>>)
            ELSE Answers(i, 404)
    /\ UNCHANGED <<paramsFile, wgParams, config, clients, daemon, resp, steps, added>>

\* Variant: the allocator also sees the address another request holds
ReadForAllocation_withHeld(content, held) ==
    IF held = <<>> THEN content ELSE content \o <<held>>

\* content, err := os.ReadFile(WG_CONFIG_FILE) of the allocator; held is
\* the address in the local variable of the other request
ReadForAllocation(content, held) == content

RaceAllocIPv4(i) ==
    /\ At(i, "add", "allocIPv4")
    /\ \E read \in {ReadForAllocation(config,
                                       inflight[CHOOSE j \in Requests : j # i].ipv4)} :
          \E auto4 \in {getNextAvailableIPv4(wgParams, read)} :
              IF auto4.err # "" THEN Answers(i, 500)
              ELSE Goes(i, "allocIPv6", [content |-> read, ipv4 |-> auto4.ip])
    /\ UNCHANGED <<paramsFile, wgParams, config, clients, daemon, resp, steps, added>>

RaceAllocIPv6(i) ==
    /\ At(i, "add", "allocIPv6")
    /\ \E auto6 \in {getNextAvailableIPv6(wgParams, config)} :
          IF wgParams.ServerWGIPv6 = <<>> THEN Goes(i, "stat", <<>>)
          ELSE IF auto6.err # "" THEN Answers(i, 500)
          ELSE Goes(i, "stat", [ipv6 |-> auto6.ip])
    /\ UNCHANGED <<paramsFile, wgParams, config, clients, daemon, resp, steps, added>>

\* os.MkdirAll and fileExists(configPath) of addWireGuardClient
RaceStat(i) ==
    /\ At(i, "add", "stat")
    /\ IF fileExists(clients, StandardConfigPath(wgParams, inflight[i].Name))
       THEN Answers(i, 500)
       ELSE Goes(i, "write", <<>>)
    /\ UNCHANGED <<paramsFile, wgParams, config, clients, daemon, resp, steps, added>>

\* The key commands and os.WriteFile(configPath, clientConfig, 0600)
RaceWrite(i) ==
    /\ At(i, "add", "write")
    /\ clients' = WriteBundle(clients,
                              StandardConfigPath(wgParams, inflight[i].Name),
                              ClientConfig(wgParams, KeyPairs[i].private,
                                           RequestPresharedKeys[i],
                                           inflight[i].ipv4, inflight[i].ipv6))
    /\ Goes(i, "append", <<>>)
    /\ UNCHANGED <<paramsFile, wgParams, config, daemon, resp, steps, added>>

\* os.OpenFile(WG_CONFIG_FILE, O_APPEND|O_WRONLY) and f.WriteString
RaceAppend(i) ==
    /\ At(i, "add", "append")
    /\ config' = TextCat(config,
                         ServerConfigUpdate(inflight[i].Name,
                                            derivePublicKey(KeyPairs[i].private),
                                            RequestPresharedKeys[i],
                                            inflight[i].ipv4, inflight[i].ipv6))
    /\ Goes(i, "strip", <<>>)
    /\ UNCHANGED <<paramsFile, wgParams, clients, daemon, resp, steps, added>>

\* content, err := os.ReadFile(WG_CONFIG_FILE) of deleteWireGuardClient
RaceRead(i) ==
    /\ At(i, "delete", "read")
    /\ Goes(i, "writecfg", [content |-> config])
    /\ UNCHANGED <<paramsFile, wgParams, config, clients, daemon, resp, steps, added>>

\* Variant: the edit is made on the file as it is when it is written
WrittenBack_ofCurrent(p, content, current, name) ==
    EditedConfig(p, current, name)

\* newContent of os.WriteFile(WG_CONFIG_FILE, newContent, 0600): the edit
\* of the content read before, whatever the file (current) holds by now
WrittenBack(p, content, current, name) == EditedConfig(p, content, name)

RaceWriteBack(i) ==
    /\ At(i, "delete", "writecfg")
    /\ IF ConfigIsRewritten(wgParams, inflight[i].content, inflight[i].Name)
       THEN /\ config' = WrittenBack(wgParams, inflight[i].content, config,
                                     inflight[i].Name)
            /\ Goes(i, "remove",
                    [lost |-> MarkedNames(config)
                                \ MarkedNames(inflight[i].content)])
       ELSE /\ config' = config
            /\ Goes(i, "remove", <<>>)
    /\ UNCHANGED <<paramsFile, wgParams, clients, daemon, resp, steps, added>>

\* fileExists and os.Remove over configPaths
RaceRemove(i) ==
    /\ At(i, "delete", "remove")
    /\ clients' = RemoveBundles(clients,
                                {f \in ConfigPaths(wgParams, inflight[i].Name) :
                                    fileExists(clients, f)})
    /\ Goes(i, "strip", <<>>)
    /\ UNCHANGED <<paramsFile, wgParams, config, daemon, resp, steps, added>>

\* wg-quick strip, into the buffer stripOutput
RaceStrip(i) ==
    /\ inflight[i].pc = "strip"
    /\ Goes(i, "syncconf", [stripped |-> StrippedPeers(config)])
    /\ UNCHANGED <<paramsFile, wgParams, config, clients, daemon, resp, steps, added>>

\* wg syncconf with stripOutput as its input, and the answer of the handler
RaceSyncconf(i) ==
    /\ inflight[i].pc = "syncconf"
    /\ daemon' = inflight[i].stripped
    /\ Answers(i, 200)
    /\ UNCHANGED <<paramsFile, wgParams, config, clients, resp, steps, added>>

RaceNext ==
    \E i \in Requests :
        \/ \E call \in RaceCalls : Receive(i, call)
        \/ RaceExists(i)
        \/ RaceAllocIPv4(i)
        \/ RaceAllocIPv6(i)
        \/ RaceStat(i)
        \/ RaceWrite(i)
        \/ RaceAppend(i)
        \/ RaceRead(i)
        \/ RaceWriteBack(i)
        \/ RaceRemove(i)
        \/ RaceStrip(i)
        \/ RaceSyncconf(i)

SpecRace == RaceInit /\ [][RaceNext]_vars

----------------------------------------------------------------------------
(* A bundle directory as earlier installations and other tooling left it:  *)
(* files of one client under several of the naming patterns, files that    *)
(* are no bundles, and a subdirectory.                                     *)

S_txt == <<".", "t", "x", "t">>

\* The entries the directory may hold, each with the host number that tells
\* its content from the others'
DirEntries ==
    {[name |-> S_a \o S_conf, isDir |-> FALSE, host |-> <<"2">>],
     [name |-> S_wg0_client \o S_a \o S_conf, isDir |-> FALSE, host |-> <<"3">>],
     [name |-> S_wg1 \o S_client \o S_a \o S_conf, isDir |-> FALSE, host |-> <<"4">>],
     [name |-> S_a \o S_txt, isDir |-> FALSE, host |-> <<"5">>],
     [name |-> S_conf, isDir |-> FALSE, host |-> <<"6">>],
     [name |-> S_b \o S_conf, isDir |-> TRUE, host |-> <<"7">>]}

DirBundle(p, host) ==
    ClientConfig(p, "kA", "sA", BaseIPv4(p) \o <<".">> \o host,
                 BaseIPv6(p) \o <<":", ":">> \o host)

DirInit ==
    /\ wgParams \in {p \in Params : p.ServerWGIPv6 # <<>>}
    /\ config = InterfaceSection(wgParams)
    /\ \E held \in SUBSET DirEntries :
          clients = [f \in {e.name : e \in held} |->
                        LET e == CHOOSE x \in held : x.name = f
                        IN  [isDir |-> e.isDir,
                             body |-> IF e.isDir THEN EmptyText
                                      ELSE DirBundle(wgParams, e.host)]]
    /\ daemon = StrippedPeers(config)
    /\ resp = [op |-> "start", name |-> <<>>, code |-> 0, message |-> "",
               data |-> {}]
    /\ steps = <<>>
    /\ added = {}
    /\ inflight = <<>>
    /\ paramsFile = ParamsFile(wgParams)

DirNext ==
    \/ ListClients
    \/ \E name \in {S_a, S_b} :
          /\ Appends(1) < 1
          /\ AddClient(AutoRequest(name), "kA", "sA", "none")
    \/ \E name \in {S_a, S_b} : DeleteClient(name, "none")

SpecDir == DirInit /\ [][DirNext]_vars

----------------------------------------------------------------------------
(* A server filled from empty: one client after the other is added with    *)
(* both addresses left to the allocators, until the add is refused.        *)

\* Most adds made in one run: the 254 the IPv4 space is said to hold
MaxFill == 254

\* The name of the k-th client: c1, c2, ...
FillName(k) == <<"c">> \o FormatDec(k)

FillInit == Init /\ wgParams \in ApiParams

FillNext ==
    /\ Appends(1) < MaxFill
    /\ AddClient(AutoRequest(FillName(Appends(1) + 1)), "kA", "sA", "none")

SpecFill == FillInit /\ [][FillNext]_vars

----------------------------------------------------------------------------
(* The start of the process: main loads the parameters file and serves the *)
(* routes only when the loader returned no error.                          *)

\* The parameters files read: per required key no line, a plain line, a
\* line with an empty value, a line without "=", a quoted value with spaces
\* around key and value, a value of quotes only, a quoted space, a value
\* holding "="; SERVER_PUB_IP possibly assigned a second time at the end.
ParamsFiles ==
    LET forms(k) == {<<"absent">>, <<k, "=", "v">>, <<k, "=">>, <<k>>,
                     <<" ", k, " ", "=", " ", "\"", "v", "\"", " ">>,
                     <<k, "=", "'", "'">>, <<k, "=", "\"", " ", "\"">>,
                     <<k, "=", "v", "=", "w">>}
        plain(k) == {<<"absent">>, <<k, "=", "v">>}
        Kept(line) == line # <<"absent">>
    IN  {SelectSeq(<<a, b, c, d, e, f>>, Kept) \o << <<>> >> :
            a \in forms("SERVER_PUB_IP"), b \in plain("SERVER_WG_NIC"),
            c \in plain("SERVER_PUB_KEY"), d \in forms("SERVER_PORT"),
            e \in plain("SERVER_WG_IPV4"),
            f \in {<<"absent">>, <<"SERVER_PUB_IP", "=">>,
                   <<"SERVER_PUB_IP", "=", "w">>}}

\* Before main: the zero value of the global wgParams
ParamsInit ==
    /\ paramsFile \in ParamsFiles
    /\ wgParams = [k \in DOMAIN loadWGParams(EmptyText).params |-> <<>>]
    /\ config = EmptyText
    /\ clients = NoFiles
    /\ daemon = {}
    /\ resp = [op |-> "start", name |-> <<>>, code |-> 0, message |-> "",
               data |-> {}]
    /\ steps = <<>>
    /\ added = {}
    /\ inflight = <<>>

\* main: loadWGParams, then log.Fatalf on an error, else router.Run
main ==
    /\ steps = <<>>
    /\ \E r \in {loadWGParams(paramsFile)} :
           /\ wgParams' = r.params
           /\ resp' = [op |-> "main", name |-> <<>>,
                       code |-> IF r.err = "" THEN 0 ELSE 1,
                       message |-> r.err, data |-> {}]
           /\ steps' = <<"loadWGParams", IF r.err = "" THEN "Run" ELSE "Fatalf">>
    /\ UNCHANGED <<paramsFile, config, clients, daemon, added, inflight>>

ParamsNext ==
    \/ main
    \/ /\ steps # <<>> /\ Last(steps) \in {"Run", "list"}
       /\ ListClients

SpecParams == ParamsInit /\ [][ParamsNext]_vars

----------------------------------------------------------------------------
(* Vocabulary of the properties *)

\* The lines of a config text that are the marker of v
MarkerLines(content, v) == {l \in DOMAIN content : content[l] = MarkerLine(v)}

\* The three names under which a block of client name may be marked
Variants(p, name) == <<name, PrefixedName(name), DynamicPrefixedName(p, name)>>

\* The part of s before its first symbol c, s itself when it has none
UpTo(s, c) ==
    IF \A i \in DOMAIN s : s[i] # c THEN s
    ELSE SubSeq(s, 1, (CHOOSE i \in DOMAIN s :
                          s[i] = c /\ \A j \in 1..(i - 1) : s[j] # c) - 1)

\* The AllowedIPs lines of the peer blocks of a config text
PeerAddressLines(content) ==
    {l \in DOMAIN content : HasPrefix(content[l], <<"AllowedIPs = ">>)}

\* The addresses one AllowedIPs line carries, and the first of them
LineAddresses(line) == {UpTo(t, "/") : t \in Range(Split(Tail(line), <<",">>))}

LineIPv4(line) == UpTo(Tail(line), "/")

\* Every address written in a peer block of the config text
ConfigAddresses(content) ==
    UNION {LineAddresses(content[l]) : l \in PeerAddressLines(content)}

\* The integers n for which the text holds baseIP, ".", and the decimal
\* digits of n (a maximal run of digits), baseIP taken literally
LiteralOctets(content, baseIP) ==
    UNION {LET line == content[l]
           IN  {ScanDec(SubSeq(line, i + Len(baseIP) + 1,
                               RunEnd(line, i + Len(baseIP) + 1, FALSE))) :
                    i \in {k \in 1..(Len(line) - Len(baseIP) - 1) :
                              /\ HasPrefixAt(line, k, baseIP \o <<".">>)
                              /\ IsDigit(line[k + Len(baseIP) + 1])}}
           : l \in DOMAIN content}

PoolIsFull(p, content) ==
    (PoolFirst..PoolLast) \subseteq LiteralOctets(content, BaseIPv4(p))

----------------------------------------------------------------------------
(* Adding, listing and deleting clients *)

\* C1: when the last request was an add that succeeded for name N, the
\* listing of the bundle directory holds a record named N whose bundle
\* (config) text is not empty.
C1_AddedClientIsListed ==
    (resp.op = "add" /\ resp.code = 200) =>
        \E c \in listWireGuardClients(wgParams, clients) :
            c.Name = resp.name /\ c.Config # EmptyText

\* An add of wg0-client-a succeeded on interface wg1 beside another client
C1_Witness ==
    /\ resp.op = "add" /\ resp.code = 200
    /\ resp.name = S_wg0_client \o S_a
    /\ wgParams.ServerWGNIC = S_wg1
    /\ Cardinality(DOMAIN clients) = 2

\* C2: an add of a name N that was added with success and not deleted since
\* answers conflict (409), leaves the config file and the bundle directory as
\* they were and does not run the daemon sync.
C2_SecondAddConflicts ==
    [][\A n \in Names :
          (n \in added /\ resp'.op = "add" /\ resp'.name = n) =>
              /\ resp'.code = 409
              /\ config' = config
              /\ clients' = clients
              /\ "strip" \notin Range(steps')]_vars

\* C3: a delete of a name the existence check reports absent answers not
\* found (404) and leaves the config file, every bundle file and the daemon
\* as they were, without running the daemon sync; this whatever call would
\* fail later in the handler.
C3_DeleteAbsentChangesNothing ==
    /\ \A n \in Names \cup {S_b}, f \in DeleteFaults :
          ~clientExists(wgParams, config, clients, n) =>
              LET r == deleteUserHandlerGin(wgParams, config, clients, daemon, n, f)
              IN  /\ r.code = 404
                  /\ r.config = config
                  /\ r.clients = clients
                  /\ r.daemon = daemon
                  /\ "strip" \notin Range(r.steps)
                  /\ "syncconf" \notin Range(r.steps)
    /\ (resp.op = "delete" /\ resp.code = 404) => steps = <<"exists">>

\* A delete answered not found while another client has its bundle
C3_Witness ==
    /\ resp.op = "delete" /\ resp.code = 404
    /\ clients # NoFiles
    /\ ~clientExists(wgParams, config, clients, resp.name)

\* C4 as stated: after a delete of N that succeeded the config file has no
\* marker line of any of the three variants of N, and no file is at any of
\* the three bundle paths of N.
C4_NoVariantLeft ==
    (resp.op = "delete" /\ resp.code = 200) =>
        /\ \A i \in 1..3 :
              MarkerLines(config, Variants(wgParams, resp.name)[i]) = {}
        /\ ~fileExists(clients, StandardConfigPath(wgParams, resp.name))
        /\ ~fileExists(clients, AlternativeConfigPath(resp.name))
        /\ ~fileExists(clients, SimpleConfigPath(resp.name))

\* C4 amended: a delete of N that succeeds leaves no file at any of the
\* three bundle paths of N; of the three variants N, wg0-client-N,
\* <interface>-client-N it takes the first, in that order, that has a marker
\* line in the config file and removes every marker line of that variant,
\* and the marker lines of the other variants stay as many as they were.
C4_FirstVariantRemoved ==
    [][(resp'.op = "delete" /\ resp'.code = 200) =>
          LET vs == Variants(wgParams, resp'.name)
              had == {i \in 1..3 : MarkerLines(config, vs[i]) # {}}
              first == CHOOSE i \in had : \A j \in had : i <= j
          IN  /\ ~fileExists(clients', StandardConfigPath(wgParams, resp'.name))
              /\ ~fileExists(clients', AlternativeConfigPath(resp'.name))
              /\ ~fileExists(clients', SimpleConfigPath(resp'.name))
              /\ had # {} => MarkerLines(config', vs[first]) = {}
              /\ \A i \in 1..3 :
                    (had = {} \/ vs[i] # vs[first]) =>
                        Cardinality(MarkerLines(config', vs[i]))
                            = Cardinality(MarkerLines(config, vs[i]))]_vars

\* A delete of a succeeded and the block of wg0-client-a, a variant of a, is
\* still in the config file
C4_Witness ==
    /\ resp.op = "delete" /\ resp.code = 200 /\ resp.name = S_a
    /\ MarkerLines(config, PrefixedName(S_a)) # {}
    /\ MarkerLines(config, S_a) = {}

\* C5: when the last request was a delete of N that succeeded, a delete of N
\* now answers not found (404).
C5_SecondDeleteNotFound ==
    (resp.op = "delete" /\ resp.code = 200) =>
        deleteUserHandlerGin(wgParams, config, clients, daemon,
                             resp.name, "none").code = 404

\* A delete succeeded and removed a bundle, and others are left
C5_Witness ==
    /\ resp.op = "delete" /\ resp.code = 200
    /\ "remove" \in Range(steps)
    /\ clients # NoFiles

----------------------------------------------------------------------------
(* Address allocation *)

\* C6: with S the integers the config text holds as <base>.<octet>,
\* getNextAvailableIPv4 returns <base>.k for the smallest k of 2..254 that is
\* not in S, and it reports the pool exhausted exactly when no such k is left.
C6_LowestFreeOctet ==
    LET base == BaseIPv4(wgParams)
        free == (PoolFirst..PoolLast) \ LiteralOctets(config, base)
        r == getNextAvailableIPv4(wgParams, config)
    IN  IF free = {}
        THEN r.err = "no available IPv4 addresses in the subnet"
        ELSE /\ r.err = ""
             /\ r.ip = base \o <<".">>
                       \o FormatDec(CHOOSE k \in free : \A j \in free : k <= j)

\* C7: an add that succeeds with an auto-assigned IPv4 address is given an
\* address that no peer block of the config file carried when it was called.
C7_AutoIPv4IsFresh ==
    [][(resp'.op = "add" /\ resp'.code = 200 /\ "allocIPv4" \in Range(steps')) =>
          \A c \in resp'.data : c.IPV4 \notin ConfigAddresses(config)]_vars

\* The second auto-assigned add: 10.66.66.3 beside the block of 10.66.66.2
C7_Witness ==
    /\ resp.op = "add" /\ resp.code = 200 /\ "allocIPv4" \in Range(steps)
    /\ \E c \in resp.data : c.IPV4 = BaseIPv4(wgParams) \o <<".", "3">>
    /\ BaseIPv4(wgParams) \o <<".", "2">> \in ConfigAddresses(config)

\* C8: an add that succeeds with an auto-assigned IPv6 address is given an
\* address that no peer block of the config file carried when it was called.
C8_AutoIPv6IsFresh ==
    [][(resp'.op = "add" /\ resp'.code = 200 /\ "allocIPv6" \in Range(steps')) =>
          \A c \in resp'.data : c.IPV6 \notin ConfigAddresses(config)]_vars

\* C9: no two peer blocks of the config file carry the same IPv4 address.
C9_DistinctIPv4 ==
    \A l1, l2 \in PeerAddressLines(config) :
        l1 # l2 => LineIPv4(config[l1]) # LineIPv4(config[l2])

\* C10: when the config file holds every host number of 2..254 under the
\* IPv4 base, an add without an ipv4 field does not succeed, writes no bundle,
\* leaves the config file and the daemon as they were and runs no sync; for
\* a valid name not reported as existing it fails with the pool exhausted.
C10_ExhaustedAddChangesNothing ==
    PoolIsFull(wgParams, config) =>
        \A n \in PoolNames \cup {S_pool} :
            LET r == addUserHandlerGin(wgParams, config, clients, daemon,
                                       AutoRequest(n), "kA", "sA", "none")
            IN  /\ r.code # 200
                /\ r.config = config
                /\ r.clients = clients
                /\ r.daemon = daemon
                /\ "write" \notin Range(r.steps)
                /\ "append" \notin Range(r.steps)
                /\ "strip" \notin Range(r.steps)
                /\ ~clientExists(wgParams, config, clients, n) =>
                      /\ r.code = 500
                      /\ r.message = "no available IPv4 addresses in the subnet"

\* An add was refused for want of a free IPv4 address after another client
\* had taken the last one
C10_Witness ==
    /\ resp.op = "add" /\ resp.code = 500
    /\ resp.message = "no available IPv4 addresses in the subnet"
    /\ PoolIsFull(wgParams, config)
    /\ clients # NoFiles

----------------------------------------------------------------------------
(* Request validation and authentication *)

\* The letters of the alphabet of the texts
NameLetters ==
    {"A", "B", "C", "D", "E", "F", "a", "b", "c", "d", "e", "f", "g", "h", "i",
     "l", "n", "o", "p", "t", "w", "x"}

\* 1 to 15 characters, each a letter, a digit, an underscore or a dash
WellFormedName(name) ==
    /\ Len(name) \in 1..15
    /\ \A i \in DOMAIN name : name[i] \in NameLetters \cup DigitSet \cup {"_", "-"}

\* C11: the add handler refuses a name (400) exactly when it is not 1 to 15
\* letters, digits, underscores or dashes, and a refused request has taken
\* the validation step alone and leaves the config file, the bundle
\* directory and the daemon as they were, whichever later call would fail.
C11_NameValidation ==
    /\ \A call \in {c \in ApiCalls : c.route = "add"},
          f \in {"none", "existsRead", "mkdir", "syncconf"} :
          \A r \in {addUserHandlerGin(wgParams, config, clients, daemon,
                                      [Name |-> call.Name, IPV4 |-> call.IPV4,
                                       IPV6 |-> call.IPV6], "kA", "sA", f)} :
              /\ WellFormedName(call.Name) <=> r.code # 400
              /\ r.code = 400 =>
                    /\ r.steps = <<"validate">>
                    /\ r.config = config
                    /\ r.clients = clients
                    /\ r.daemon = daemon
    /\ (resp.op = "add" /\ resp.code = 400) =>
          ~WellFormedName(resp.name) /\ steps = <<"auth", "validate">>
    /\ (resp.op = "add" /\ resp.code \notin {400, 401}) => WellFormedName(resp.name)

\* An add of a name of 16 characters was refused while a client of 15
\* characters has its bundle
C11_Witness ==
    /\ resp.op = "add" /\ resp.code = 400 /\ resp.name = S_name16
    /\ fileExists(clients, StandardConfigPath(wgParams, S_name15))

\* C12: a delete request that passed authentication with a name that is not
\* 1 to 15 letters, digits, underscores or dashes is refused (400) without
\* the config file being read and without a bundle path being tested or
\* removed.
C12_DeleteValidatesName ==
    (resp.op = "delete" /\ resp.code # 401 /\ ~WellFormedName(resp.name)) =>
        /\ resp.code = 400
        /\ "exists" \notin Range(steps)
        /\ "read" \notin Range(steps)
        /\ "remove" \notin Range(steps)

----------------------------------------------------------------------------
(* Name resolution *)

\* C13 as stated: whenever the bundle directory holds wg0-client-N.conf, the
\* existence check for N is true and the listing has a record named N,
\* whatever the interface is called.
C13_LegacyFileFound ==
    \A n \in LegacyNames :
        fileExists(clients, S_wg0_client \o n \o S_conf) =>
            /\ clientExists(wgParams, config, clients, n)
            /\ \E c \in listWireGuardClients(wgParams, clients) : c.Name = n

\* C13 amended: whenever the bundle directory holds wg0-client-N.conf, the
\* existence check for N is true, and the listing has a record named N,
\* unless the file name also starts with <interface>-client-: then the
\* record is named by what stands between that prefix and ".conf".
C13_LegacyFileFoundUnlessOwn ==
    \A n \in LegacyNames :
        fileExists(clients, S_wg0_client \o n \o S_conf) =>
            /\ clientExists(wgParams, config, clients, n)
            /\ LET f == S_wg0_client \o n
                   own == wgParams.ServerWGNIC \o S_client
                   shown == IF Len(f) > Len(own) /\ HasPrefix(f, own)
                            THEN SubSeq(f, Len(own) + 1, Len(f))
                            ELSE n
               IN  \E c \in listWireGuardClients(wgParams, clients) :
                       c.Name = shown

\* On interface wg1 the listing answered with a record named a, read from
\* wg0-client-a.conf
C13_Witness ==
    /\ wgParams.ServerWGNIC = S_wg1
    /\ fileExists(clients, S_wg0_client \o S_a \o S_conf)
    /\ ~fileExists(clients, StandardConfigPath(wgParams, S_a))
    /\ resp.op = "list"
    /\ \E c \in resp.data : c.Name = S_a /\ c.Config # EmptyText

\* C14: the existence check for N is true whenever the config file has a
\* marker line of N, of wg0-client-N or of <interface>-client-N, wherever the
\* line stands and whether or not a bundle file of N exists.
C14_MarkerMeansExists ==
    \A n \in Names :
        (\E i \in 1..3 : MarkerLines(config, Variants(wgParams, n)[i]) # {}) =>
            clientExists(wgParams, config, clients, n)

\* C15: from any config file, an add of N that succeeds followed by a delete
\* of N that succeeds leaves the config file as it was before the add, line
\* for line.
C15_AddDeleteRoundTrip ==
    \A req \in AddRequests :
        \A r1 \in {addUserHandlerGin(wgParams, config, clients, daemon, req,
                                     "kA", "sA", "none")} :
            r1.code = 200 =>
                \A r2 \in {deleteUserHandlerGin(wgParams, r1.config, r1.clients,
                                                r1.daemon, req.Name, "none")} :
                    r2.code = 200 => r2.config = config

\* C16: a request whose "key" header is missing or is not the API token is
\* answered 401 by the middleware alone: no handler step is taken, whatever
\* the route, and the config file, the bundle directory and the daemon stay
\* as they were.
C16_UnauthorizedReachesNoHandler ==
    /\ \A token \in ApiTokens, call \in ApiCalls, f \in {"none", "systemctl"} :
          token # API_TOKEN =>
              \A r \in {router(wgParams, config, clients, daemon, token, call,
                               "kA", "sA", f)} :
                  /\ r.code = 401
                  /\ r.steps = <<"auth">>
                  /\ r.data = {}
                  /\ r.config = config
                  /\ r.clients = clients
                  /\ r.daemon = daemon
    /\ resp.code = 401 => steps = <<"auth">>

\* A stop request with a wrong token was refused on a server with a client
C16_Witness ==
    /\ resp.op = "stop" /\ resp.code = 401
    /\ resp.message = "Invalid API token"
    /\ clients # NoFiles
    /\ daemon # {}

\* C17: AddClient consults the IPv4 allocator exactly when the request has
\* no ipv4, and the IPv6 allocator exactly when the request has no ipv6 and
\* the server has an IPv6 address; an address the caller supplies is the one
\* in the returned record, in the Address line of the bundle file and in
\* the AllowedIPs line of the appended peer block.
C17_AllocatorsOnlyWhenOmitted ==
    \A a \in AddressForms, name \in {S_abcde, S_name15} :
        \A r \in {addUserHandlerGin(wgParams, config, clients, daemon,
                                    [Name |-> name, IPV4 |-> a[1], IPV6 |-> a[2]],
                                    "kA", "sA", "none")} :
            LET asked4 == "allocIPv4" \in Range(r.steps)
                asked6 == "allocIPv6" \in Range(r.steps)
                omits6 == a[2] = <<>> /\ wgParams.ServerWGIPv6 # <<>>
                bundle == r.clients[StandardConfigPath(wgParams, name)].body
                block == r.config[Len(r.config) - 1]
            IN  /\ asked4 => a[1] = <<>>
                /\ asked6 => omits6
                /\ r.code = 200 =>
                       /\ asked4 <=> a[1] = <<>>
                       /\ asked6 <=> omits6
                       /\ \A rec \in r.data :
                              /\ a[1] # <<>> =>
                                     /\ rec.IPV4 = a[1]
                                     /\ UpTo(Tail(bundle[3]), "/") = a[1]
                                     /\ LineIPv4(block) = a[1]
                              /\ a[2] # <<>> =>
                                     /\ rec.IPV6 = a[2]
                                     /\ a[2] \in LineAddresses(bundle[3])
                                     /\ a[2] \in LineAddresses(block)
                       /\ r.data # {}

\* An add that carried both addresses succeeded without asking an allocator
C17_Witness ==
    /\ resp.op = "add" /\ resp.code = 200
    /\ "allocIPv4" \notin Range(steps) /\ "allocIPv6" \notin Range(steps)
    /\ \E rec \in resp.data : rec.IPV4 = S_10_66_66_5 /\ rec.IPV6 = S_fd42_5
    /\ S_10_66_66_5 \in ConfigAddresses(config)

----------------------------------------------------------------------------
(* Retrying after a failure *)

\* C18: when DeleteClient(N) has failed at the daemon sync, with the block
\* and the bundle files already removed and the peer still in the daemon,
\* the next DeleteClient(N) that does not fail runs the sync, and the daemon
\* then holds the peers of the config file, N no longer among them.
C18_DeleteRetryCompletes ==
    [][(/\ resp.op = "delete" /\ resp.code = 500
        /\ "syncconf" \in Range(steps)
        /\ MarkerLines(config, resp.name) = {}
        /\ \A f \in ConfigPaths(wgParams, resp.name) : ~fileExists(clients, f)
        /\ daemon \ StrippedPeers(config) # {}
        /\ resp'.op = "delete" /\ resp'.name = resp.name /\ resp'.code # 500)
       => (/\ "syncconf" \in Range(steps')
           /\ daemon' = StrippedPeers(config'))]_vars

\* C19: when AddClient(N) has failed after its bundle file was written (at
\* the append or at the daemon sync), the next AddClient(N) that does not
\* fail leaves N fully registered: its bundle file, exactly one peer block
\* of N in the config file, and the daemon holding the peers of that file.
C19_AddRetryRegisters ==
    [][(/\ resp.op = "add" /\ resp.code = 500
        /\ "write" \in Range(steps)
        /\ resp'.op = "add" /\ resp'.name = resp.name /\ resp'.code # 500)
       => (/\ fileExists(clients', StandardConfigPath(wgParams, resp.name))
           /\ Cardinality(MarkerLines(config', resp.name)) = 1
           /\ daemon' = StrippedPeers(config'))]_vars

----------------------------------------------------------------------------
(* The order of the steps of one add *)

\* The steps of an add, in the order of the code
AddOrder ==
    <<"validate", "exists", "allocIPv4", "allocIPv6", "mkdir", "stat", "genkey",
      "pubkey", "genpsk", "write", "open", "append", "strip", "syncconf">>

StepIndex(step) == CHOOSE i \in DOMAIN AddOrder : AddOrder[i] = step

\* The step at which a failing call fails
FaultStep(fault) == IF fault = "existsRead" THEN "exists" ELSE fault

\* C20: the steps of one AddClient call are taken in the order validation,
\* existence check, IPv4 allocation, IPv6 allocation, bundle file write,
\* block append, daemon sync; a step that fails is the last step of the
\* call, which then answers with an error and no bundle; the block is
\* appended only after the bundle file is written and the sync runs only
\* after the append; stores and daemon change only by the steps taken.
C20_AddStepOrder ==
    \A a \in AddressForms, name \in {S_abcde, S_name16}, f \in AddStepFaults :
        \A r \in {addUserHandlerGin(wgParams, config, clients, daemon,
                                    [Name |-> name, IPV4 |-> a[1], IPV6 |-> a[2]],
                                    "kA", "sA", f)} :
            LET taken == Range(r.steps)
                path == StandardConfigPath(wgParams, name)
            IN  /\ taken \subseteq Range(AddOrder)
                /\ r.steps # <<>> /\ r.steps[1] = "validate"
                /\ \A i, j \in DOMAIN r.steps :
                       i < j => StepIndex(r.steps[i]) < StepIndex(r.steps[j])
                /\ FaultStep(f) \in taken =>
                       Last(r.steps) = FaultStep(f) /\ r.code = 500
                /\ "append" \in taken => "write" \in taken
                /\ "syncconf" \in taken => "append" \in taken
                /\ "write" \in taken => {"validate", "exists"} \subseteq taken
                /\ "write" \notin taken \/ f = "write" => r.clients = clients
                /\ "write" \in taken /\ f # "write" =>
                       fileExists(r.clients, path) /\ ~fileExists(clients, path)
                /\ "append" \notin taken => r.config = config
                /\ "append" \in taken =>
                       /\ Len(r.config) > Len(config)
                       /\ MarkerLines(r.config, name) # MarkerLines(config, name)
                /\ "syncconf" \notin taken \/ f = "syncconf" => r.daemon = daemon
                /\ r.code = 200 <=> (Last(r.steps) = "syncconf" /\ f # "syncconf")
                /\ r.code = 200 => r.daemon = StrippedPeers(r.config)
                /\ r.code = 200 <=> r.data # {}

\* An add stopped at the failing opening of the config file: the allocations
\* were made and the bundle file written, nothing was appended or synced
C20_Witness ==
    /\ resp.op = "add" /\ resp.code = 500
    /\ steps = <<"validate", "exists", "allocIPv4", "allocIPv6", "mkdir",
                 "stat", "genkey", "pubkey", "genpsk", "write", "open">>
    /\ fileExists(clients, StandardConfigPath(wgParams, resp.name))
    /\ MarkerLines(config, resp.name) = {}
    /\ daemon = {}

----------------------------------------------------------------------------
(* Failures of the daemon sync *)

\* C21: when the daemon sync fails at the end of AddClient(N), the call
\* answers with an error and no bundle, and nothing is taken back: the
\* bundle file of N is on disk, the peer block of N ends the config file,
\* and the listing holds a record named N.
C21_FailedSyncKeepsClient ==
    (resp.op = "add" /\ resp.code = 500 /\ "strip" \in Range(steps)) =>
        /\ resp.message = "failed to sync WireGuard config"
        /\ resp.data = {}
        /\ fileExists(clients, StandardConfigPath(wgParams, resp.name))
        /\ Len(config) - 5 \in MarkerLines(config, resp.name)
        /\ config[Len(config) - 4] = <<"[Peer]">>
        /\ \E c \in listWireGuardClients(wgParams, clients) :
               c.Name = resp.name /\ c.Config # EmptyText

\* An add failed at wg syncconf: the daemon has no peer, the file has one
C21_Witness ==
    /\ resp.op = "add" /\ resp.code = 500
    /\ Last(steps) = "syncconf"
    /\ daemon = {}
    /\ StrippedPeers(config) # {}
    /\ \E c \in listWireGuardClients(wgParams, clients) : c.Name = resp.name

----------------------------------------------------------------------------
(* The order of the steps of one delete *)

\* The steps of a delete, in the order of the code
DeleteOrder == <<"exists", "read", "writecfg", "remove", "strip", "syncconf">>

DeleteStepIndex(step) == CHOOSE i \in DOMAIN DeleteOrder : DeleteOrder[i] = step

\* C22: the steps of one DeleteClient call are taken in the order existence
\* check, removal of the block from the config file, removal of the bundle
\* files, daemon sync; the sync runs at most once and only after both
\* removals; a failing removal of a bundle file ends the call with an
\* error, the block already removed and the sync not run.
C22_DeleteStepOrder ==
    \A name \in {S_abcde, S_a}, f \in DeleteStepFaults :
        \A r \in {deleteUserHandlerGin(wgParams, config, clients, daemon, name, f)} :
            LET taken == Range(r.steps)
                present == {path \in ConfigPaths(wgParams, name) :
                               fileExists(clients, path)}
                marked == \E i \in 1..3 :
                             MarkerLines(config, Variants(wgParams, name)[i]) # {}
            IN  /\ taken \subseteq Range(DeleteOrder)
                /\ r.steps # <<>> /\ r.steps[1] = "exists"
                /\ \A i, j \in DOMAIN r.steps :
                       i < j => DeleteStepIndex(r.steps[i])
                                   < DeleteStepIndex(r.steps[j])
                /\ FaultStep(f) \in taken =>
                       Last(r.steps) = FaultStep(f) /\ r.code = 500
                /\ "strip" \in taken =>
                       /\ "read" \in taken
                       /\ marked => "writecfg" \in taken
                       /\ present # {} => "remove" \in taken
                       /\ \A path \in present : ~fileExists(r.clients, path)
                /\ (f = "remove" /\ "remove" \in taken) =>
                       /\ "strip" \notin taken
                       /\ r.daemon = daemon
                       /\ r.config = EditedConfig(wgParams, config, name)
                       /\ marked => r.config # config
                /\ "writecfg" \notin taken \/ f = "writecfg" => r.config = config
                /\ "remove" \notin taken \/ f = "remove" => r.clients = clients
                /\ "syncconf" \notin taken \/ f = "syncconf" => r.daemon = daemon
                /\ r.code = 200 <=> (Last(r.steps) = "syncconf" /\ f # "syncconf")
                /\ r.code = 200 => r.daemon = StrippedPeers(r.config)

\* A delete stopped at the failing removal of the bundle file: the block is
\* gone from the config file, the file is on disk, the daemon has the peer
C22_Witness ==
    /\ resp.op = "delete" /\ resp.code = 500
    /\ steps = <<"exists", "read", "writecfg", "remove">>
    /\ MarkerLines(config, resp.name) = {}
    /\ fileExists(clients, StandardConfigPath(wgParams, resp.name))
    /\ daemon # {}

\* The number of times a step was taken
Times(step, taken) == Cardinality({i \in DOMAIN taken : taken[i] = step})

\* C23: the daemon sync is wg-quick strip and then wg syncconf, which runs
\* only when the strip succeeded and applies what the strip printed (the
\* peers of the config file); when either command fails the sync returns
\* an error and leaves the daemon as it was, the enclosing add or delete
\* answers with an error, and neither command is run a second time.
C23_SyncIsStripThenApply ==
    /\ \A f \in {"none", "strip", "syncconf"} :
          \A r \in {syncWireGuardConf(config, daemon, f)} :
              /\ r.steps = IF f = "strip" THEN <<"strip">>
                           ELSE <<"strip", "syncconf">>
              /\ f = "none" => r.err = "" /\ r.daemon = StrippedPeers(config)
              /\ f # "none" => r.err # "" /\ r.daemon = daemon
    /\ (resp.op \in {"add", "delete"} /\ "strip" \in Range(steps)) =>
          /\ Times("strip", steps) = 1 /\ Times("syncconf", steps) <= 1
          /\ Last(steps) \in {"strip", "syncconf"}
          /\ resp.code \in {200, 500}
          /\ Last(steps) = "strip" => resp.code = 500
          /\ resp.code = 500 => resp.message = "failed to sync WireGuard config"
          /\ resp.code = 200 => daemon = StrippedPeers(config)

\* A delete failed at wg-quick strip: the daemon still has the removed peer
C23_Witness ==
    /\ resp.op = "delete" /\ resp.code = 500
    /\ Last(steps) = "strip"
    /\ daemon # StrippedPeers(config)

\* C24: whenever an add or a delete has answered with success, the peers
\* of the daemon are the peer blocks of the config file.
C24_SuccessMeansSynced ==
    (resp.op \in {"add", "delete"} /\ resp.code = 200) =>
        daemon = StrippedPeers(config)

\* A delete succeeded and left the block of another client, which the
\* daemon holds
C24_Witness ==
    /\ resp.op = "delete" /\ resp.code = 200
    /\ Cardinality(daemon) = 1
    /\ MarkerLines(config, resp.name) = {}

----------------------------------------------------------------------------
(* What a delete removes *)

\* C25: when DeleteClient(N) passes the existence check and the config
\* file has no marker line of any of the three variants of N, the call
\* succeeds, does not write the config file and leaves it as it was, and
\* still removes the bundle files of N and runs the daemon sync.
C25_DeleteWithoutBlock ==
    /\ \A name \in {S_abcde, S_a} :
          (/\ clientExists(wgParams, config, clients, name)
           /\ \A i \in 1..3 :
                 MarkerLines(config, Variants(wgParams, name)[i]) = {}) =>
              \A r \in {deleteUserHandlerGin(wgParams, config, clients, daemon,
                                             name, "none")} :
                  /\ r.code = 200
                  /\ r.config = config
                  /\ r.steps = <<"exists", "read", "remove", "strip", "syncconf">>
                  /\ \A path \in ConfigPaths(wgParams, name) :
                         ~fileExists(r.clients, path)
                  /\ r.daemon = StrippedPeers(config)
    /\ (/\ resp.op = "delete" /\ "read" \in Range(steps)
        /\ "writecfg" \notin Range(steps) /\ "remove" \in Range(steps)) =>
           \/ resp.code = 200
           \/ resp.message \in {"failed to delete client config",
                                "failed to sync WireGuard config"}

\* A delete of a client that had a bundle file and no block succeeded
C25_Witness ==
    /\ resp.op = "delete" /\ resp.code = 200
    /\ steps = <<"exists", "read", "remove", "strip", "syncconf">>
    /\ clients = NoFiles

\* The lines of a text other than those numbered in removed, in order
WithoutLines(content, removed) ==
    LET kept == DOMAIN content \ removed
    IN  [i \in 1..Cardinality(kept) |->
            content[CHOOSE k \in kept : Cardinality({j \in kept : j <= k}) = i]]

\* The blocks under a name: marker, [Peer], public key, pre-shared key,
\* allowed IPs
BlocksOf(content, v) ==
    {SubSeq(content, l, l + 4) : l \in MarkerLines(content, v)}

\* C26: a successful DeleteClient(N) takes out of the config file the
\* five lines of N's block, from the marker line to the allowed-IPs line,
\* under the first variant of N that has a marker, and nothing else: every
\* other line stays, in order, and the block of every other name M is in
\* the file as it was, whether it stands before N's block, directly after
\* it or last, and also when N is a prefix of M.
C26_DeleteRemovesOnlyItsBlock ==
    \A name \in LegacyNames :
        \A r \in {deleteUserHandlerGin(wgParams, config, clients, daemon,
                                       name, "none")} :
            LET hit == {i \in 1..3 :
                           MarkerLines(config, Variants(wgParams, name)[i]) # {}}
                v == Variants(wgParams, name)[CHOOSE i \in hit :
                                                 \A k \in hit : i <= k]
                span == UNION {l..(l + 4) : l \in MarkerLines(config, v)}
            IN  (r.code = 200 /\ hit # {}) =>
                    /\ r.config = WithoutLines(config, span)
                    /\ MarkerLines(r.config, v) = {}
                    /\ \A m \in MarkedNames(config) \ {v} :
                           /\ BlocksOf(r.config, m) = BlocksOf(config, m)
                           /\ Cardinality(MarkerLines(r.config, m))
                                 = Cardinality(MarkerLines(config, m))
                           /\ \A b \in BlocksOf(r.config, m) : Len(b) = 5

\* A delete of a succeeded between the blocks of a-client-b, of which a is
\* a prefix, and of b
C26_Witness ==
    /\ resp.op = "delete" /\ resp.code = 200 /\ resp.name = S_a
    /\ "writecfg" \in Range(steps)
    /\ MarkerLines(config, S_a) = {}
    /\ MarkerLines(config, S_a_client_b) # {}
    /\ MarkerLines(config, S_b) # {}

\* C27: in every state reached by adds and deletes from a config file
\* without peer blocks, no marker line stands in the config file twice.
C27_MarkerLinesUnique ==
    \A v \in MarkedNames(config) : Cardinality(MarkerLines(config, v)) <= 1

----------------------------------------------------------------------------
(* Requests served at once *)

\* C28: two adds of different names without addresses that have both read
\* the config file, for the IPv4 allocation, before either appended its
\* block, hold the same IPv4 address, the lowest free one; both go on to
\* answer with success, and both blocks in the config file carry that
\* address.
C28_ConcurrentAddsShareAddress ==
    \A i, j \in Requests :
        (/\ i # j
         /\ inflight[i].op = "add" /\ inflight[j].op = "add"
         /\ inflight[i].Name # inflight[j].Name
         /\ inflight[i].ipv4 # <<>> /\ inflight[j].ipv4 # <<>>
         /\ inflight[j].Name \notin MarkedNames(inflight[i].content)
         /\ inflight[i].Name \notin MarkedNames(inflight[j].content)) =>
            /\ inflight[i].ipv4 = inflight[j].ipv4
            /\ inflight[i].ipv4
                  = getNextAvailableIPv4(wgParams, InterfaceSection(wgParams)).ip
            /\ inflight[i].pc = "done" =>
                   /\ inflight[i].code = 200
                   /\ \A l \in MarkerLines(config, inflight[i].Name) :
                          LineIPv4(config[l + 4]) = inflight[i].ipv4
                   /\ MarkerLines(config, inflight[i].Name) # {}

\* The adds of a and of b both answered with success and the same address
C28_Witness ==
    /\ \A i \in Requests :
          /\ inflight[i].op = "add" /\ inflight[i].pc = "done"
          /\ inflight[i].code = 200
    /\ inflight[1].Name # inflight[2].Name
    /\ inflight[1].ipv4 = inflight[2].ipv4
    /\ Cardinality({l \in PeerAddressLines(config) :
                       LineIPv4(config[l]) = inflight[1].ipv4}) = 2

\* C29: when a delete of M read the config file before the block of N was
\* appended by an add running at the same time, and wrote its edited copy
\* back after the append, the config file has no block of N from then on,
\* while the bundle file of N is on disk and the add of N answers with
\* success.
C29_DeleteOverwritesAppend ==
    \A i, j \in Requests :
        (/\ inflight[i].op = "delete" /\ inflight[j].op = "add"
         /\ inflight[j].Name \in inflight[i].lost) =>
            /\ inflight[i].Name # inflight[j].Name
            /\ MarkerLines(config, inflight[j].Name) = {}
            /\ fileExists(clients, StandardConfigPath(wgParams, inflight[j].Name))
            /\ inflight[j].pc \in {"strip", "syncconf", "done"}
            /\ inflight[j].pc = "done" => inflight[j].code = 200

\* The delete of b and the add of a both answered with success; the config
\* file has no block of a, the bundle directory has the bundle of a
C29_Witness ==
    \E i, j \in Requests :
        /\ inflight[i].op = "delete" /\ inflight[i].pc = "done"
        /\ inflight[i].code = 200
        /\ inflight[j].op = "add" /\ inflight[j].pc = "done"
        /\ inflight[j].code = 200
        /\ inflight[j].Name \notin MarkedNames(inflight[i].content)
        /\ MarkerLines(config, inflight[j].Name) = {}
        /\ fileExists(clients, StandardConfigPath(wgParams, inflight[j].Name))

\* C30: when two adds of the same name, not existing before, have both
\* answered, at most one of them answered with success, the config file
\* has at most one block of the name, and the public key and the
\* pre-shared key of that block are those of the bundle file on disk.
C30_SameNameAddsOnce ==
    \A i, j \in Requests :
        (/\ i # j
         /\ inflight[i].op = "add" /\ inflight[j].op = "add"
         /\ inflight[i].Name = inflight[j].Name
         /\ inflight[i].pc = "done" /\ inflight[j].pc = "done") =>
            LET name == inflight[i].Name
                path == StandardConfigPath(wgParams, name)
            IN  /\ ~(inflight[i].code = 200 /\ inflight[j].code = 200)
                /\ Cardinality(MarkerLines(config, name)) <= 1
                /\ \A l \in MarkerLines(config, name) :
                       /\ fileExists(clients, path)
                       /\ \E pair \in Range(KeyPairs) :
                              /\ clients[path].body[2]
                                    = <<"PrivateKey = ", pair.private>>
                              /\ config[l + 2] = <<"PublicKey = ", pair.public>>
                       /\ config[l + 3] = clients[path].body[8]


----------------------------------------------------------------------------
(* An add never replaces a bundle file *)

\* C31: AddClient never overwrites an existing bundle file: when a file is
\* at the path <interface>-client-N.conf, the add of N is refused with an
\* error, whatever addresses it carries and whatever else fails; the files
\* and their contents are as before, no peer block is appended and the
\* daemon sync is not run.  The same holds of addWireGuardClient called on
\* its own, which answers that the file already exists.
C31_ExistingBundleRefused ==
    \A a \in AddressForms, f \in AddStepFaults :
        fileExists(clients, StandardConfigPath(wgParams, S_abcde)) =>
            /\ \A r \in {addUserHandlerGin(wgParams, config, clients, daemon,
                             [Name |-> S_abcde, IPV4 |-> a[1], IPV6 |-> a[2]],
                             "kA", "sA", f)} :
                   /\ r.code \in {409, 500} /\ r.data = {}
                   /\ r.clients = clients /\ r.config = config
                   /\ r.daemon = daemon
                   /\ Range(r.steps) \cap {"write", "append", "strip", "syncconf"} = {}
            /\ \A w \in {addWireGuardClient(wgParams, config, clients, daemon,
                             S_abcde, S_10_66_66_5, S_fd42_5, "kB", "sB", f)} :
                   /\ w.err = IF f = "mkdir"
                              THEN "failed to create clients directory"
                              ELSE "client configuration file already exists"
                   /\ w.clientConfig = EmptyText
                   /\ w.clients = clients /\ w.config = config
                   /\ w.daemon = daemon
                   /\ Range(w.steps) \subseteq {"mkdir", "stat"}

\* An add of a name whose bundle file is on disk was refused at the
\* existence check, the file being the one the first add wrote
C31_Witness ==
    /\ resp.op = "add" /\ resp.code = 409
    /\ steps = <<"validate", "exists">>
    /\ fileExists(clients, StandardConfigPath(wgParams, resp.name))
    /\ clients[StandardConfigPath(wgParams, resp.name)].body[2]
           = <<"PrivateKey = ", "kA">>

----------------------------------------------------------------------------
(* What a delete leaves of the other clients *)

\* C32: DeleteClient(N) removes only bundle files of N: for every other
\* name M that was added and whose bundle file is on disk, the file is there
\* with the same content after the delete, M is reported as existing and
\* the listing holds a record named M.
C32_DeleteKeepsOtherBundles ==
    [][resp'.op = "delete" =>
          \A m \in added \ {resp'.name} :
              fileExists(clients, StandardConfigPath(wgParams, m)) =>
                  /\ fileExists(clients', StandardConfigPath(wgParams, m))
                  /\ clients'[StandardConfigPath(wgParams, m)]
                         = clients[StandardConfigPath(wgParams, m)]
                  /\ clientExists(wgParams, config', clients', m)
                  /\ \E c \in listWireGuardClients(wgParams, clients') :
                         c.Name = m]_vars

----------------------------------------------------------------------------
(* The listing of a directory with aliasing files *)

\* The regular files of the bundle directory from which the listing derives
\* the name n
FilesOf(n) ==
    {f \in DOMAIN clients : ~clients[f].isDir /\ DerivedName(wgParams, f) = n}

\* C33: ListClients returns at most one record per logical name: when
\* several files of the bundle directory derive the same name, the result
\* has a single record of that name, with the content of the file read last
\* (the greatest file name, os.ReadDir sorting by name); every record comes
\* from a regular file whose name matches a pattern, so directories and
\* files matching no pattern contribute none.
C33_OneRecordPerName ==
    \A listed \in {listWireGuardClients(wgParams, clients)} :
        /\ \A c, d \in listed : c.Name = d.Name => c = d
        /\ \A c \in listed :
               /\ c.Name # <<>>
               /\ FilesOf(c.Name) # {}
               /\ \E f \in FilesOf(c.Name) :
                      /\ \A g \in FilesOf(c.Name) : g = f \/ StrLess(g, f)
                      /\ c.Config = clients[f].body
                      /\ c.IPV4 = UpTo(Tail(clients[f].body[3]), "/")
        /\ \A f \in DOMAIN clients :
               (~clients[f].isDir /\ HasSuffix(f, S_conf) /\ Len(f) > Len(S_conf))
                   <=> \E c \in listed : FilesOf(c.Name) # {} /\ f \in FilesOf(c.Name)
        /\ Cardinality(listed)
               = Cardinality({DerivedName(wgParams, f) :
                                 f \in {g \in DOMAIN clients :
                                           /\ ~clients[g].isDir
                                           /\ HasSuffix(g, S_conf)
                                           /\ Len(g) > Len(S_conf)}})

\* On wg1 the directory holds a.conf, wg0-client-a.conf and wg1-client-a.conf,
\* a file that is no bundle and a subdirectory b.conf; the listing answered
\* with the one record a, read from wg1-client-a.conf
C33_Witness ==
    /\ wgParams.ServerWGNIC = S_wg1
    /\ DOMAIN clients = {e.name : e \in DirEntries}
    /\ resp.op = "list"
    /\ Cardinality(resp.data) = 1
    /\ \E c \in resp.data :
           /\ c.Name = S_a
           /\ c.Config = DirBundle(wgParams, <<"4">>)

\* C34: in every reachable state, every name the listing returns is reported
\* as existing by the existence check, so a DeleteClient of a listed name is
\* never answered not-found, whichever of its calls fails.
C34_ListedMeansExists ==
    \A c \in listWireGuardClients(wgParams, clients) :
        /\ clientExists(wgParams, config, clients, c.Name)
        /\ \A f \in DeleteStepFaults :
               deleteUserHandlerGin(wgParams, config, clients, daemon,
                                    c.Name, f).code \in {200, 500}

\* The listing answered with a record a read from a.conf, the only file
\* of that client, and the existence check finds a by that file
C34_Witness ==
    /\ resp.op = "list"
    /\ \E c \in resp.data : c.Name = S_a
    /\ ~fileExists(clients, StandardConfigPath(wgParams, S_a))
    /\ ~fileExists(clients, AlternativeConfigPath(S_a))
    /\ fileExists(clients, SimpleConfigPath(S_a))
    /\ clientExists(wgParams, config, clients, S_a)

----------------------------------------------------------------------------
(* The bundle and the block of one add *)

\* C35: after a successful AddClient(N) the bundle file and the peer block
\* written for N agree: the Address line of the file and the AllowedIPs
\* line of the block carry the same IPv4 and IPv6 addresses, which are the
\* ones of the returned record; both carry the same pre-shared key; the
\* public key of the block is the one derived from the private key in the
\* file; and the bundle returned is the content of the file, line for line.
C35_BundleMatchesBlock ==
    \A a \in AddressForms, pair \in Range(KeyPairs),
       psk \in Range(RequestPresharedKeys) :
        \A r \in {addUserHandlerGin(wgParams, config, clients, daemon,
                                    [Name |-> S_abcde, IPV4 |-> a[1], IPV6 |-> a[2]],
                                    pair.private, psk, "none")} :
            r.code = 200 =>
                LET bundle == r.clients[StandardConfigPath(wgParams, S_abcde)].body
                    n == Len(r.config)
                IN  /\ r.config[n - 5] = MarkerLine(S_abcde)
                    /\ Tail(bundle[3]) = Tail(r.config[n - 1])
                    /\ bundle[8][1] = "PresharedKey = "
                    /\ bundle[8] = r.config[n - 2]
                    /\ bundle[8][2] = psk
                    /\ bundle[2][1] = "PrivateKey = "
                    /\ r.config[n - 3]
                           = <<"PublicKey = ", derivePublicKey(bundle[2][2])>>
                    /\ bundle[2][2] = pair.private
                    /\ r.data # {}
                    /\ \A rec \in r.data :
                           /\ rec.Config = bundle
                           /\ Tail(bundle[3]) = rec.IPV4 \o S_slash32 \o <<",">>
                                                    \o rec.IPV6 \o S_slash128

\* An add that carried the IPv4 address and left the IPv6 address to the
\* allocator succeeded: the file and the block end in the same addresses
C35_Witness ==
    /\ resp.op = "add" /\ resp.code = 200
    /\ "allocIPv4" \notin Range(steps) /\ "allocIPv6" \in Range(steps)
    /\ fileExists(clients, StandardConfigPath(wgParams, resp.name))
    /\ Tail(clients[StandardConfigPath(wgParams, resp.name)].body[3])
           = Tail(config[Len(config) - 1])
    /\ \E rec \in resp.data :
           rec.Config = clients[StandardConfigPath(wgParams, resp.name)].body

----------------------------------------------------------------------------
(* Failures of the key commands *)

KeyFaults == {"genkey", "pubkey", "genpsk"}

----------------------------------------------------------------------------
(* The shape of an appended block *)

\* C37: every peer block that AddClient appends has the shape of the
\* configuration grammar: the marker line, [Peer], a PublicKey line, a
\* PresharedKey line, the line AllowedIPs = <ipv4>/32,<ipv6>/128 with a
\* non-empty IPv4 before /32 and a non-empty IPv6 before /128, and an empty
\* line; whatever addresses the request carried or omitted and whether or
\* not the server has an IPv6 address.
C37_BlockShape ==
    \A i \in MarkerLines(config, S_abcde) :
        /\ i + 5 <= Len(config)
        /\ config[i + 1] = <<"[Peer]">>
        /\ Len(config[i + 2]) = 2 /\ config[i + 2][1] = "PublicKey = "
        /\ Len(config[i + 3]) = 2 /\ config[i + 3][1] = "PresharedKey = "
        /\ config[i + 5] = <<>>
        /\ config[i + 4][1] = "AllowedIPs = "
        /\ \A parts \in {Split(Tail(config[i + 4]), <<",">>)} :
               /\ Len(parts) = 2
               /\ HasSuffix(parts[1], S_slash32)
               /\ HasSuffix(parts[2], S_slash128)
               /\ Len(parts[1]) > Len(S_slash32)
               /\ Len(parts[2]) > Len(S_slash128)

----------------------------------------------------------------------------
(* The size of the IPv4 pool *)

\* The IPv4 addresses of the peer blocks of the config file
ClientIPv4s == {LineIPv4(config[l]) : l \in PeerAddressLines(config)}

HostAddress(k) == BaseIPv4(wgParams) \o <<".">> \o FormatDec(k)

\* C39 as stated: the pool is a 254-host space, so pool-exhausted is
\* returned only after 254 successive auto-assigned adds have obtained
\* pairwise distinct IPv4 addresses.
C39_PoolOf254 ==
    (resp.op = "add" /\ resp.code = 500) =>
        /\ Cardinality(PeerAddressLines(config)) = 254
        /\ Cardinality(ClientIPv4s) = 254

\* C39 amended: from a config file in which no client uses a host number,
\* the server holding host 1, exactly 253 successive auto-assigned adds
\* succeed; they obtain the pairwise distinct addresses of the hosts 2 to
\* 254 in ascending order, and the 254th add is answered pool-exhausted.
C39_PoolOf253 ==
    \A n \in {Cardinality(PeerAddressLines(config))} :
        /\ n <= PoolLast - PoolFirst + 1
        /\ PoolLast - PoolFirst + 1 = 253
        /\ ClientIPv4s = {HostAddress(k) : k \in PoolFirst..(n + 1)}
        /\ Cardinality(ClientIPv4s) = n
        /\ (resp.op = "add" /\ resp.code = 200) =>
               \A rec \in resp.data : rec.IPV4 = HostAddress(n + 1)
        /\ (resp.op = "add" /\ resp.code = 500) =>
               /\ n = 253
               /\ resp.message = "no available IPv4 addresses in the subnet"
        /\ n = 253 =>
               addUserHandlerGin(wgParams, config, clients, daemon,
                                 AutoRequest(FillName(254)), "kA", "sA",
                                 "none").message
                   = "no available IPv4 addresses in the subnet"

\* The 254th add was answered pool-exhausted, the config file holding 253
\* peer blocks, the last of them with host 254
C39_Witness ==
    /\ resp.op = "add" /\ resp.code = 500
    /\ resp.name = FillName(254)
    /\ resp.message = "no available IPv4 addresses in the subnet"
    /\ Cardinality(PeerAddressLines(config)) = 253
    /\ LineIPv4(config[Len(config) - 1]) = HostAddress(254)

----------------------------------------------------------------------------
(* Loading the parameters *)

RequiredKeys ==
    {"SERVER_PUB_IP", "SERVER_WG_NIC", "SERVER_PUB_KEY", "SERVER_PORT",
     "SERVER_WG_IPV4"}

\* The line assigns the key k: its first "=" has k before it, and nothing
\* else but spaces
AssignsKey(line, k) ==
    \E i \in DOMAIN line :
        /\ line[i] = "="
        /\ \A j \in 1..(i - 1) : line[j] \in {" ", k}
        /\ Cardinality({j \in 1..(i - 1) : line[j] = k}) = 1

\* Something of the line's value is left after parsing: behind the first
\* "=" stands a symbol that is no quote character and is no space at either
\* end of the value
LeavesValue(line) ==
    \E i \in DOMAIN line :
        /\ line[i] = "=" /\ \A j \in 1..(i - 1) : line[j] # "="
        /\ \E m \in (i + 1)..Len(line) :
               /\ line[m] \notin {"\"", "'"}
               /\ \/ line[m] # " "
                  \/ /\ \E x \in (i + 1)..(m - 1) : line[x] # " "
                     /\ \E y \in (m + 1)..Len(line) : line[y] # " "

\* The field of key k is there after parsing: the last line of the file
\* that assigns k leaves a value
FieldPresent(k) ==
    \E l \in DOMAIN paramsFile :
        /\ AssignsKey(paramsFile[l], k)
        /\ LeavesValue(paramsFile[l])
        /\ \A m \in (l + 1)..Len(paramsFile) : ~AssignsKey(paramsFile[m], k)

\* C38: the parameter loader returns a configuration error exactly when one
\* of the five required fields (public IP, VPN interface, server public
\* key, port, IPv4 base) is absent or empty after parsing, lines without
\* "=" counting for nothing and quote characters around a value being
\* stripped; main then ends at log.Fatalf and no route is served.
C38_LoaderRequiresFiveFields ==
    /\ resp.op = "main" =>
           /\ resp.code = 1 <=> \E k \in RequiredKeys : ~FieldPresent(k)
           /\ resp.code = 1 <=>
                  resp.message = "required WireGuard parameters missing"
           /\ Last(steps) = IF resp.code = 1 THEN "Fatalf" ELSE "Run"
    /\ resp.op = "list" => \A k \in RequiredKeys : FieldPresent(k)
    /\ resp.op \in {"main", "list"} =>
           /\ FieldPresent("SERVER_PUB_IP") <=> wgParams.ServerPubIP # <<>>
           /\ FieldPresent("SERVER_PORT") <=> wgParams.ServerPort # <<>>
           /\ wgParams.ServerPubIP \in {<<>>, <<"v">>, <<"w">>, <<" ">>,
                                        <<"v", "=", "w">>}
           /\ wgParams.ServerPort \in {<<>>, <<"v">>, <<" ">>, <<"v", "=", "w">>}
           /\ <<" ", "SERVER_PORT", " ", "=", " ", "\"", "v", "\"", " ">>
                  \in Range(paramsFile) => wgParams.ServerPort = <<"v">>

\* main ended at log.Fatalf on a file that has a line for each of the five
\* keys, the port's value being two quote characters
C38_Witness ==
    /\ resp.op = "main" /\ resp.code = 1
    /\ Last(steps) = "Fatalf"
    /\ <<"SERVER_PORT", "=", "'", "'">> \in Range(paramsFile)
    /\ \A k \in RequiredKeys \ {"SERVER_PORT"} : FieldPresent(k)
    /\ wgParams.ServerPubIP # <<>>
====
